---------------------------- MODULE Spec2Model ----------------------------
(***************************************************************************)
(* Model of the stencil-based differential / filtering engine of pycsou /  *)
(* pyxu: the Pad operator, the _StencilOp correlation operator with its    *)
(* chunked evaluation, and the finite-difference operator builders.        *)
(*                                                                         *)
(* Arrays are functions from index tuples (sequences of 0-based indices,   *)
(* as in Python) to integers; a shape is a sequence of axis lengths.       *)
(* Rational kernel coefficients are kept as integer numerators over one    *)
(* common denominator.                                                     *)
(***************************************************************************)
EXTENDS Integers, Sequences, FiniteSets, TLC

VARIABLES
    pc,      \* name of the last operation that ran ("init" after construction)
    op,      \* the constructed operator object (its fields)
    arr,     \* the caller's input array of the last call
    chunks,  \* per axis, the chunk lengths of the input when it is a chunked array
    out      \* what the last call returned: [ok |-> BOOLEAN, val |-> array]

vars == <<pc, op, arr, chunks, out>>

(***************************************************************************)
(* Bounds of the model.                                                    *)
(***************************************************************************)
MaxPad == 2        \* largest pad width tried for the modes without a limit

MaxK == 3          \* longest 1-D stencil kernel tried

MaxAcc == 2        \* largest finite-difference accuracy tried

MaxOrder == 2      \* largest derivative order tried for a single finite difference

MaxN == 6          \* largest iteration limit tried for MaxIter and LSQR

(***************************************************************************)
(* Generic helpers: integers, index tuples, arrays.                        *)
(***************************************************************************)
Min(a, b) == IF a <= b THEN a ELSE b

Max(a, b) == IF a >= b THEN a ELSE b

Abs(a) == IF a >= 0 THEN a ELSE -a

RECURSIVE SeqSum(_)
SeqSum(s) == IF s = <<>> THEN 0 ELSE Head(s) + SeqSum(Tail(s))

RECURSIVE Prod(_)
Prod(s) == IF s = <<>> THEN 1 ELSE Head(s) * Prod(Tail(s))

RECURSIVE SetSum(_, _)
SetSum(S, f) ==
    IF S = {} THEN 0
    ELSE LET e == CHOOSE e \in S : TRUE IN f[e] + SetSum(S \ {e}, f)

\* all index tuples of an array of shape sh (row-major, 0-based)
RECURSIVE Indices(_)
Indices(sh) ==
    IF sh = <<>> THEN {<<>>}
    ELSE {<<i>> \o t : i \in 0 .. (sh[1] - 1), t \in Indices(Tail(sh))}

Zeros(sh) == [idx \in Indices(sh) |-> 0]

\* the array f with every sample computed once (f itself, as a table)
Array(f) == f @@ << >>

\* unit array: 1 at index e, 0 elsewhere
Unit(sh, e) == [idx \in Indices(sh) |-> IF idx = e THEN 1 ELSE 0]

Inner(x, y) == SetSum(DOMAIN x, [idx \in DOMAIN x |-> x[idx] * y[idx]])

OkVal(a) == [ok |-> TRUE, val |-> a]

Failed == [ok |-> FALSE, val |-> << >>]

(***************************************************************************)
(* Python slice semantics (slice.indices): the list of indices selected by *)
(* slice(start, stop, step) on an axis of length n, for step in {1, -1}.   *)
(***************************************************************************)
\* a bound given to a slice: negative values count from the end, then clamp
SliceBound(v, n, step) ==
    LET w == IF v < 0 THEN v + n ELSE v
    IN IF step > 0
       THEN (IF w < 0 THEN 0 ELSE IF w > n THEN n ELSE w)
       ELSE (IF w < 0 THEN -1 ELSE IF w >= n THEN n - 1 ELSE w)

\* indices start, start+step, ... strictly before stop (bounds already resolved)
SliceRange(lo, hi, step) ==
    IF step > 0
    THEN [p \in 1 .. Max(hi - lo, 0) |-> lo + (p - 1)]
    ELSE [p \in 1 .. Max(lo - hi, 0) |-> lo - (p - 1)]

PySlice(start, stop, step, n) ==
    SliceRange(SliceBound(start, n, step), SliceBound(stop, n, step), step)

\* slice(start, None, -1): runs down to and including index 0
PySliceToNone(start, n) == SliceRange(SliceBound(start, n, -1), -1, -1)

(***************************************************************************)
(* NumPy basic-slice assignment along one axis (1-based axis ax):          *)
(*   out[w_s] = out[r_s]   and   out[w_s] += out[r_s]                      *)
(* w and r are index lists along axis ax; all other axes are taken whole.  *)
(* The right-hand side is read before anything is written.  Shapes must    *)
(* agree, or the read side must have length 1 along ax (broadcast);        *)
(* otherwise NumPy raises ValueError.                                      *)
(***************************************************************************)
Broadcastable(w, r) == Len(r) = Len(w) \/ Len(r) = 1

\* position p of w reads position p of r (or the single entry of r)
ReadIdx(r, w, p) == IF Len(r) = Len(w) THEN r[p] ELSE r[1]

PosIn(w, v) == CHOOSE p \in 1 .. Len(w) : w[p] = v

InSeq(w, v) == \E p \in 1 .. Len(w) : w[p] = v

SliceAssign(a, ax, w, r) ==
    IF ~Broadcastable(w, r) THEN Failed
    ELSE OkVal([idx \in DOMAIN a |->
                 IF InSeq(w, idx[ax])
                 THEN a[[idx EXCEPT ![ax] = ReadIdx(r, w, PosIn(w, idx[ax]))]]
                 ELSE a[idx]])

SliceAddAssign(a, ax, w, r) ==
    IF ~Broadcastable(w, r) THEN Failed
    ELSE OkVal([idx \in DOMAIN a |->
                 IF InSeq(w, idx[ax])
                 THEN a[idx] + a[[idx EXCEPT ![ax] = ReadIdx(r, w, PosIn(w, idx[ax]))]]
                 ELSE a[idx]])

\* out[w_s] += out[r_s].sum(axis=ax, keepdims=True), w_s a single index
SliceAddSum(a, ax, w, r) ==
    OkVal([idx \in DOMAIN a |->
            IF InSeq(w, idx[ax])
            THEN a[idx] + SeqSum([p \in 1 .. Len(r) |-> a[[idx EXCEPT ![ax] = r[p]]]])
            ELSE a[idx]])


(***************************************************************************)
(* Pad (pyxu/operator/linop/pad.py).                                       *)
(* A Pad object is a record [_arg_shape, _pad_width, _mode, _pad_shape];   *)
(* _pad_width[d] = <<lhs, rhs>>.                                           *)
(***************************************************************************)
Modes == {"constant", "wrap", "reflect", "symmetric", "edge"}

\* Pad.__init__: is pad width w within the limit w_max of mode m on an axis
\* of length n?  (constant and edge: np.inf)
WithinWMax(m, n, w) ==
    CASE m = "constant"  -> TRUE
      [] m = "wrap"      -> w <= n
      [] m = "reflect"   -> w <= n - 1
      [] m = "symmetric" -> w <= n
      [] m = "edge"      -> TRUE

\* Pad.__init__: the assertions that construction must pass
Pad_init_ok(arg_shape, pad_width, mode) ==
    /\ \A d \in 1 .. Len(arg_shape) : arg_shape[d] > 0
    /\ Len(pad_width) = Len(arg_shape)
    /\ \A d \in 1 .. Len(arg_shape) : 0 <= Min(pad_width[d][1], pad_width[d][2])
    /\ Len(mode) = Len(arg_shape)
    /\ \A d \in 1 .. Len(arg_shape) : mode[d] \in Modes
    /\ \A d \in 1 .. Len(arg_shape) :
          WithinWMax(mode[d], arg_shape[d], Max(pad_width[d][1], pad_width[d][2]))

\* Pad.__init__: the fields of the constructed object
Pad_init(arg_shape, pad_width, mode) ==
    [_arg_shape |-> arg_shape,
     _pad_width |-> pad_width,
     _mode      |-> mode,
     _pad_shape |-> [d \in 1 .. Len(arg_shape) |->
                        arg_shape[d] + pad_width[d][1] + pad_width[d][2]]]

\* xp.pad(arr, pad_width, mode="constant", constant_values=0)
xp_pad(self, a) ==
    [idx \in Indices(self._pad_shape) |->
        LET core == [d \in 1 .. Len(idx) |-> idx[d] - self._pad_width[d][1]]
        IN IF core \in DOMAIN a THEN a[core] ELSE 0]

\* Pad.apply, part 2, wrap: fix LHS then RHS of axis ax
ApplyWrap(o, ax, lhs, rhs, N) ==
    LET FixRHS(b) == SliceAssign(b, ax, PySlice(N - rhs, N, 1, N),
                                        PySlice(lhs, lhs + rhs, 1, N))
        first == SliceAssign(o, ax, PySlice(0, lhs, 1, N),
                               PySlice(N - rhs - lhs, N - rhs, 1, N))
    IN IF first.ok THEN FixRHS(first.val) ELSE first

ApplyReflect(o, ax, lhs, rhs, N) ==
    LET FixRHS(b) == SliceAssign(b, ax, PySlice(N - rhs, N, 1, N),
                                        PySlice(N - rhs - 2, N - 2 * rhs - 2, -1, N))
        first == SliceAssign(o, ax, PySlice(0, lhs, 1, N),
                               PySlice(2 * lhs, lhs, -1, N))
    IN IF first.ok THEN FixRHS(first.val) ELSE first

ApplySymmetric(o, ax, lhs, rhs, N) ==
    LET FixRHS(b) == SliceAssign(b, ax, PySlice(N - rhs, N, 1, N),
                                        PySlice(N - rhs - 1, N - 2 * rhs - 1, -1, N))
        first == SliceAssign(o, ax, PySlice(0, lhs, 1, N),
                               PySlice(2 * lhs - 1, lhs - 1, -1, N))
    IN IF first.ok THEN FixRHS(first.val) ELSE first

ApplyEdge(o, ax, lhs, rhs, N) ==
    LET FixLHS(b) == IF lhs > 0
                     THEN SliceAssign(b, ax, PySlice(0, lhs, 1, N),
                                             PySlice(lhs, lhs + 1, 1, N))
                     ELSE OkVal(b)
        FixRHS(b) == IF rhs > 0
                     THEN SliceAssign(b, ax, PySlice(N - rhs, N, 1, N),
                                             PySlice(N - rhs - 1, N - rhs, 1, N))
                     ELSE OkVal(b)
        first == FixLHS(o)
    IN IF first.ok THEN FixRHS(first.val) ELSE first

\* one iteration of the border loop of Pad.apply, on axis ax
ApplyBorder(self, o, ax) ==
    LET m   == self._mode[ax]
        lhs == self._pad_width[ax][1]
        rhs == self._pad_width[ax][2]
        N   == self._pad_shape[ax]
    IN CASE m = "constant"  -> OkVal(o)
         [] m = "wrap"      -> ApplyWrap(o, ax, lhs, rhs, N)
         [] m = "reflect"   -> ApplyReflect(o, ax, lhs, rhs, N)
         [] m = "symmetric" -> ApplySymmetric(o, ax, lhs, rhs, N)
         [] m = "edge"      -> ApplyEdge(o, ax, lhs, rhs, N)

\* the loop "for i in range(N_dim, 0, -1)" on axis -i: first axis to last
RECURSIVE ApplyBorders(_, _, _)
ApplyBorders(self, st, ax) ==
    IF ax > Len(self._arg_shape) \/ ~st.ok THEN st
    ELSE ApplyBorders(self, ApplyBorder(self, st.val, ax), ax + 1)

Pad_apply(self, a) == ApplyBorders(self, OkVal(xp_pad(self, a)), 1)

\* Pad.adjoint, part 1: correction terms of axis ax
AdjointWrap(o, ax, lhs, rhs, N) ==
    LET FixRHS(b) == SliceAddAssign(b, ax, PySlice(lhs, lhs + rhs, 1, N),
                                           PySlice(N - rhs, N, 1, N))
        first == SliceAddAssign(o, ax, PySlice(N - rhs - lhs, N - rhs, 1, N),
                                  PySlice(0, lhs, 1, N))
    IN IF first.ok THEN FixRHS(first.val) ELSE first

AdjointReflect(o, ax, lhs, rhs, N) ==
    LET FixLHS(b) == IF lhs > 0
                     THEN SliceAddAssign(b, ax, PySlice(lhs + 1, 2 * lhs + 1, 1, N),
                                                PySliceToNone(lhs - 1, N))
                     ELSE OkVal(b)
        FixRHS(b) == SliceAddAssign(b, ax, PySlice(N - 2 * rhs - 1, N - rhs - 1, 1, N),
                                           PySlice(N - 1, N - rhs - 1, -1, N))
        first == FixLHS(o)
    IN IF first.ok THEN FixRHS(first.val) ELSE first

AdjointSymmetric(o, ax, lhs, rhs, N) ==
    LET FixLHS(b) == IF lhs > 0
                     THEN SliceAddAssign(b, ax, PySlice(lhs, 2 * lhs, 1, N),
                                                PySliceToNone(lhs - 1, N))
                     ELSE OkVal(b)
        FixRHS(b) == SliceAddAssign(b, ax, PySlice(N - 2 * rhs, N - rhs, 1, N),
                                           PySlice(N - 1, N - rhs - 1, -1, N))
        first == FixLHS(o)
    IN IF first.ok THEN FixRHS(first.val) ELSE first

AdjointEdge(o, ax, lhs, rhs, N) ==
    LET FixLHS(b) == IF lhs > 0
                     THEN SliceAddSum(b, ax, PySlice(lhs, lhs + 1, 1, N),
                                             PySlice(0, lhs, 1, N))
                     ELSE OkVal(b)
        FixRHS(b) == IF rhs > 0
                     THEN SliceAddSum(b, ax, PySlice(N - rhs - 1, N - rhs, 1, N),
                                             PySlice(N - rhs, N, 1, N))
                     ELSE OkVal(b)
        first == FixLHS(o)
    IN IF first.ok THEN FixRHS(first.val) ELSE first

AdjointBorder(self, o, ax) ==
    LET m   == self._mode[ax]
        lhs == self._pad_width[ax][1]
        rhs == self._pad_width[ax][2]
        N   == self._pad_shape[ax]
    IN CASE m = "constant"  -> OkVal(o)
         [] m = "wrap"      -> AdjointWrap(o, ax, lhs, rhs, N)
         [] m = "reflect"   -> AdjointReflect(o, ax, lhs, rhs, N)
         [] m = "symmetric" -> AdjointSymmetric(o, ax, lhs, rhs, N)
         [] m = "edge"      -> AdjointEdge(o, ax, lhs, rhs, N)

\* the loop "for i in range(1, N_dim + 1)" on axis -i: last axis to first
RECURSIVE AdjointBorders(_, _, _)
AdjointBorders(self, st, ax) ==
    IF ax < 1 \/ ~st.ok THEN st
    ELSE AdjointBorders(self, AdjointBorder(self, st.val, ax), ax - 1)

\* Pad.adjoint, part 2: out[lhs : N - rhs] on every axis
ExtractCore(self, o) ==
    [idx \in Indices(self._arg_shape) |->
        o[[d \in 1 .. Len(idx) |-> idx[d] + self._pad_width[d][1]]]]

Pad_adjoint(self, a) ==
    LET st == AdjointBorders(self, OkVal(a), Len(self._arg_shape))
    IN IF st.ok THEN OkVal(ExtractCore(self, st.val)) ELSE st

(***************************************************************************)
(* Specification of Pad: construct a Pad with any admissible arguments,    *)
(* then call apply or adjoint on it.                                       *)
(***************************************************************************)
PadArgShapes == {<<1>>, <<2>>, <<3>>, <<4>>, <<2, 2>>}

PadWidths(D) == [1 .. D -> (0 .. MaxPad) \X (0 .. MaxPad)]

\* the array 1, 2, 3, ... in row-major order: every sample is distinct and non-zero
RECURSIVE Ravel(_, _)
Ravel(sh, idx) ==
    IF sh = <<>> THEN 0
    ELSE idx[1] * Prod(Tail(sh)) + Ravel(Tail(sh), Tail(idx))

Ramp(sh) == [idx \in Indices(sh) |-> 1 + Ravel(sh, idx)]

Units(sh) == {Unit(sh, e) : e \in Indices(sh)}

InitPad ==
    /\ pc = "init"
    /\ \E sh \in PadArgShapes :
         \E pw \in PadWidths(Len(sh)), m \in [1 .. Len(sh) -> Modes] :
            /\ Pad_init_ok(sh, pw, m)
            /\ op = Pad_init(sh, pw, m)
    /\ arr = << >>
    /\ chunks = << >>
    /\ out = Failed

PadApply ==
    /\ pc = "init"
    /\ \E x \in Units(op._arg_shape) \cup {Ramp(op._arg_shape)} :
          /\ arr' = x
          /\ out' = Pad_apply(op, x)
    /\ pc' = "apply"
    /\ UNCHANGED <<op, chunks>>

PadAdjoint ==
    /\ pc = "init"
    /\ \E y \in Units(op._pad_shape) \cup {Ramp(op._pad_shape)} :
          /\ arr' = y
          /\ out' = Pad_adjoint(op, y)
    /\ pc' = "adjoint"
    /\ UNCHANGED <<op, chunks>>

NextPad == PadApply \/ PadAdjoint

SpecPad == InitPad /\ [][NextPad]_vars

(***************************************************************************)
(* What padding means, independently of how Pad computes it: the sample    *)
(* that position p of an axis of length n shows under mode m (p < 0 or     *)
(* p >= n lies in the padding), or -1 when the position shows zero.        *)
(***************************************************************************)
ExtIndex(m, n, p) ==
    IF 0 <= p /\ p < n THEN p
    ELSE CASE m = "constant"  -> -1
           [] m = "wrap"      -> p % n
           [] m = "reflect"   -> IF p < 0 THEN -p ELSE 2 * (n - 1) - p
           [] m = "symmetric" -> IF p < 0 THEN -p - 1 ELSE 2 * n - 1 - p
           [] m = "edge"      -> IF p < 0 THEN 0 ELSE n - 1

\* the padded array that a Pad with these fields is meant to return for input a
Extended(self, a) ==
    [idx \in Indices(self._pad_shape) |->
        LET src == [d \in 1 .. Len(idx) |->
                      ExtIndex(self._mode[d], self._arg_shape[d],
                               idx[d] - self._pad_width[d][1])]
        IN IF \E d \in 1 .. Len(idx) : src[d] = -1 THEN 0 ELSE a[src]]

(***************************************************************************)
(* C6.  Pad.apply returns, for every mode and every admissible             *)
(* (lhs, rhs), an array of the padded shape whose core equals the input    *)
(* and whose padded entries are 0 / the circular / the mirrored (without   *)
(* or with the edge sample) / the nearest edge sample.                     *)
(***************************************************************************)
PadApplyContract ==
    pc = "apply" =>
        /\ out.ok
        /\ DOMAIN out.val = Indices(op._pad_shape)
        /\ ExtractCore(op, out.val) = arr
        /\ out.val = Extended(op, arr)

(***************************************************************************)
(* C7.  Pad.adjoint is the exact transpose of Pad.apply:                   *)
(* <Pad.apply(x), y> = <x, Pad.adjoint(y)> for every unit input x and the  *)
(* y that adjoint was called on.                                           *)
(***************************************************************************)
PadAdjointIsTranspose ==
    pc = "adjoint" =>
        /\ out.ok
        /\ \A j \in Indices(op._arg_shape) :
              LET x == Unit(op._arg_shape, j)
                  ax == Pad_apply(op, x)
              IN /\ ax.ok
                 /\ Inner(ax.val, arr) = Inner(x, out.val)

(***************************************************************************)
(* _StencilOp (pycsou/operator/linop/base.py).                             *)
(* A kernel is an array over Indices(kshape).  The object is a record      *)
(* [arg_shape, ndim, stencil_coefs, kshape, center, stencil_coefs_adjoint, *)
(*  center_adjoint, width, _lipschitz].                                    *)
(***************************************************************************)
\* xp.flip(stencil_coefs): reversal along every axis
xp_flip(coefs, kshape) ==
    [q \in Indices(kshape) |->
        coefs[[d \in 1 .. Len(kshape) |-> kshape[d] - 1 - q[d]]]]

\* faulty variant: the adjoint keeps the center of the kernel instead of mirroring it
CenterAdjointNotMirrored(kshape, center) == center

\* np.array(stencil_coefs.shape) - 1 - np.atleast_1d(center)
CenterAdjoint(kshape, center) ==
    [d \in 1 .. Len(kshape) |-> kshape[d] - 1 - center[d]]

\* faulty variant: the halo is as deep on the right as on the left
set_widthLeftOnly(kshape, center) ==
    <<<<0, 0>>>> \o [d \in 1 .. Len(kshape) |-> <<center[d], center[d]>>]

\* _StencilOp._set_width: the stacking axis first, then (left, right) per axis
set_width(kshape, center) ==
    <<<<0, 0>>>> \o [d \in 1 .. Len(kshape) |-> <<center[d], kshape[d] - center[d] - 1>>]

\* abs(stencil_coefs).max()
AbsMax(coefs) ==
    CHOOSE v \in {Abs(coefs[q]) : q \in DOMAIN coefs} :
        \A q \in DOMAIN coefs : Abs(coefs[q]) <= v

\* 2 * abs(self.stencil_coefs).max()
LipschitzEstimate(coefs) == 2 * AbsMax(coefs)

\* _StencilOp._sanitize_inputs: the assertion on the dimensions
StencilOp_init_ok(coefs, kshape, center, arg_shape) ==
    /\ Len(center) = Len(kshape)
    /\ Len(kshape) = Len(arg_shape)

\* _StencilOp.__init__ with _sanitize_inputs
StencilOp_init(coefs, kshape, center, arg_shape) ==
    [arg_shape             |-> arg_shape,
     ndim                  |-> Len(arg_shape),
     stencil_coefs         |-> coefs,
     kshape                |-> kshape,
     center                |-> center,
     stencil_coefs_adjoint |-> xp_flip(coefs, kshape),
     center_adjoint        |-> CenterAdjoint(kshape, center),
     width                 |-> set_width(kshape, center),
     _lipschitz            |-> LipschitzEstimate(coefs)]

\* Does the kernel, laid with its center on idx, lie inside an array of shape sh?
HasSupport(kshape, center, sh, idx) ==
    \A d \in 1 .. Len(sh) :
        /\ idx[d] - center[d] >= 0
        /\ idx[d] - center[d] + kshape[d] - 1 <= sh[d] - 1

\* sum over the kernel taps of coefs[q] * a[idx - center + q]
Correlate(coefs, kshape, center, a, idx) ==
    SetSum(Indices(kshape),
           [q \in Indices(kshape) |->
               coefs[q] * a[[d \in 1 .. Len(idx) |-> idx[d] - center[d] + q[d]]]])

\* the compiled stencil made by make_nd_stencil(coefficients, center): the
\* correlation where the kernel finds support in the array, 0 elsewhere
nd_stencil(coefs, kshape, center, a, sh) ==
    [idx \in Indices(sh) |->
        IF HasSupport(kshape, center, sh, idx)
        THEN Correlate(coefs, kshape, center, a, idx)
        ELSE 0]

\* _StencilOp._apply
StencilOp_apply(self, a) ==
    nd_stencil(self.stencil_coefs, self.kshape, self.center, a, self.arg_shape)

\* _StencilOp._adjoint
StencilOp_adjoint(self, a) ==
    nd_stencil(self.stencil_coefs_adjoint, self.kshape, self.center_adjoint, a,
               self.arg_shape)

(***************************************************************************)
(* dask.array.map_overlap(func, depth=..., boundary="none"): every block   *)
(* is extended by depth[d] = <<left, right>> elements of its neighbours    *)
(* (nothing is added at the ends of the array), func runs on the extended  *)
(* block, and the elements that were added are trimmed off.                *)
(* ch[d] is the sequence of chunk lengths of axis d.                       *)
(***************************************************************************)
\* first index of chunk number c of an axis chunked as cs
RECURSIVE ChunkStart(_, _)
ChunkStart(cs, c) == IF c = 1 THEN 0 ELSE ChunkStart(cs, c - 1) + cs[c - 1]

\* number of the chunk that holds index i
ChunkOf(cs, i) ==
    CHOOSE c \in 1 .. Len(cs) : ChunkStart(cs, c) <= i /\ i < ChunkStart(cs, c) + cs[c]

\* first and last index of the extended block, per axis
ExtLo(cs, c, left) == Max(0, ChunkStart(cs, c) - left)

ExtHi(cs, c, right, n) == Min(n - 1, ChunkStart(cs, c) + cs[c] - 1 + right)

map_overlap(coefs, kshape, center, a, sh, ch, depth) ==
    [idx \in Indices(sh) |->
        LET D   == Len(sh)
            blk == [d \in 1 .. D |-> ChunkOf(ch[d], idx[d])]
            lo  == [d \in 1 .. D |-> ExtLo(ch[d], blk[d], depth[d][1])]
            hi  == [d \in 1 .. D |-> ExtHi(ch[d], blk[d], depth[d][2], sh[d])]
            esh == [d \in 1 .. D |-> hi[d] - lo[d] + 1]
            ext == [e \in Indices(esh) |-> a[[d \in 1 .. D |-> e[d] + lo[d]]]]
            res == nd_stencil(coefs, kshape, center, ext, esh)
        IN res[[d \in 1 .. D |-> idx[d] - lo[d]]]]

\* self.width without the entry of the stacking axis
ArgDepth(self) == [d \in 1 .. self.ndim |-> self.width[d + 1]]

\* _StencilOp._apply_dask
StencilOp_apply_dask(self, a, ch) ==
    map_overlap(self.stencil_coefs, self.kshape, self.center, a, self.arg_shape,
                ch, ArgDepth(self))

\* _StencilOp._adjoint_dask
StencilOp_adjoint_dask(self, a, ch) ==
    map_overlap(self.stencil_coefs_adjoint, self.kshape, self.center_adjoint, a,
                self.arg_shape, ch, ArgDepth(self))

(***************************************************************************)
(* Specification of _StencilOp: construct an operator from any kernel and  *)
(* center, then call apply or adjoint on a dense array (_apply, _adjoint)  *)
(* or on a chunked array (_apply_dask, _adjoint_dask).                     *)
(***************************************************************************)
KernelVals == {-1, 2}

StencilKernelShapes == {<<k>> : k \in 1 .. MaxK} \cup {<<2, 2>>}

StencilArgShapes == {<<4>>, <<6>>, <<3, 3>>}

Ones(sh) == [idx \in Indices(sh) |-> 1]

StencilInputs(sh) == Units(sh) \cup {Ones(sh)}

\* all ways to cut an axis of length n into chunks of at least lo elements
RECURSIVE Chunkings(_, _)
Chunkings(n, lo) ==
    IF n = 0 THEN {<< >>}
    ELSE UNION {{<<c>> \o t : t \in Chunkings(n - c, lo)} : c \in lo .. n}

\* map_overlap makes every chunk hold at least the deepest halo of its axis
MinChunk(self, d) == Max(1, Max(self.width[d + 1][1], self.width[d + 1][2]))

ChunkingsOf(self) ==
    {ch \in [1 .. self.ndim -> UNION {Chunkings(self.arg_shape[d], 1) : d \in 1 .. self.ndim}] :
        \A d \in 1 .. self.ndim : ch[d] \in Chunkings(self.arg_shape[d], MinChunk(self, d))}

InitStencil ==
    /\ pc = "init"
    /\ \E ks \in StencilKernelShapes, sh \in StencilArgShapes :
         \E k \in [Indices(ks) -> KernelVals], c \in Indices(ks) :
            /\ StencilOp_init_ok(k, ks, c, sh)
            /\ op = StencilOp_init(k, ks, c, sh)
    /\ arr = << >>
    /\ chunks = << >>
    /\ out = Failed

StApply ==
    /\ pc = "init"
    /\ \E x \in StencilInputs(op.arg_shape) :
          /\ arr' = x
          /\ out' = OkVal(StencilOp_apply(op, x))
    /\ pc' = "apply"
    /\ UNCHANGED <<op, chunks>>

StAdjoint ==
    /\ pc = "init"
    /\ \E y \in StencilInputs(op.arg_shape) :
          /\ arr' = y
          /\ out' = OkVal(StencilOp_adjoint(op, y))
    /\ pc' = "adjoint"
    /\ UNCHANGED <<op, chunks>>

StApplyDask ==
    /\ pc = "init"
    /\ \E x \in StencilInputs(op.arg_shape), ch \in ChunkingsOf(op) :
          /\ arr' = x
          /\ chunks' = ch
          /\ out' = OkVal(StencilOp_apply_dask(op, x, ch))
    /\ pc' = "apply_dask"
    /\ UNCHANGED op

StAdjointDask ==
    /\ pc = "init"
    /\ \E y \in StencilInputs(op.arg_shape), ch \in ChunkingsOf(op) :
          /\ arr' = y
          /\ chunks' = ch
          /\ out' = OkVal(StencilOp_adjoint_dask(op, y, ch))
    /\ pc' = "adjoint_dask"
    /\ UNCHANGED op

NextStencil == StApply \/ StAdjoint \/ StApplyDask \/ StAdjointDask

SpecStencil == InitStencil /\ [][NextStencil]_vars

\* kernel radius per axis, and the positions at least that far from every boundary
Radius(self, d) == Max(self.center[d], self.kshape[d] - 1 - self.center[d])

Interior(self) ==
    {idx \in Indices(self.arg_shape) :
        \A d \in 1 .. self.ndim :
            /\ Radius(self, d) <= idx[d]
            /\ idx[d] <= self.arg_shape[d] - 1 - Radius(self, d)}

\* positions of the chunks that have a neighbouring chunk on both sides of every axis
InInteriorChunk(ch, idx) ==
    \A d \in 1 .. Len(idx) :
        /\ ChunkOf(ch[d], idx[d]) > 1
        /\ ChunkOf(ch[d], idx[d]) < Len(ch[d])

NormSq(a) == Inner(a, a)

(***************************************************************************)
(* C1.  Interior adjoint identity: for interior positions i and j, the     *)
(* weight that adjoint gives input i in output j equals the weight that    *)
(* apply gives input j in output i, i.e. <apply(e_j), e_i> =               *)
(* <e_j, adjoint(e_i)>.                                                    *)
(***************************************************************************)
AdjointIdentityInterior ==
    pc = "adjoint" =>
        \A i \in Interior(op), j \in Interior(op) :
            arr = Unit(op.arg_shape, i) =>
                out.val[j] = StencilOp_apply(op, Unit(op.arg_shape, j))[i]

\* adjoint ran on an interior unit input, with a center that is not its own
\* mirror image, and spread a weight to another interior position
AdjointIdentityWitness ==
    /\ pc = "adjoint"
    /\ op.center # op.center_adjoint
    /\ \E i \in Interior(op), j \in Interior(op) :
          /\ i # j
          /\ arr = Unit(op.arg_shape, i)
          /\ out.val[j] # 0

(***************************************************************************)
(* C3.  Chunked apply: at every position of every interior chunk the       *)
(* chunked evaluation (halo of Width, local stencil, trim) returns the     *)
(* value of the unchunked apply.                                           *)
(***************************************************************************)
ChunkedApplyExact ==
    pc = "apply_dask" =>
        \A idx \in Indices(op.arg_shape) :
            InInteriorChunk(chunks, idx) =>
                out.val[idx] = StencilOp_apply(op, arr)[idx]

\* a chunked apply with an asymmetric center whose result is non-zero on the
\* first and on the last element of an interior chunk
ChunkedApplyWitness ==
    /\ pc = "apply_dask"
    /\ op.ndim = 1
    /\ op.center # op.center_adjoint
    /\ Len(chunks[1]) >= 3
    /\ out.val[<<ChunkStart(chunks[1], 2)>>] # 0
    /\ out.val[<<ChunkStart(chunks[1], 3) - 1>>] # 0

(***************************************************************************)
(* C4.  Chunked adjoint: at every position of every interior chunk the     *)
(* chunked evaluation of adjoint, with the same Width halo as apply,       *)
(* returns the value of the unchunked adjoint, whatever the center.        *)
(***************************************************************************)
ChunkedAdjointExact ==
    pc = "adjoint_dask" =>
        \A idx \in Indices(op.arg_shape) :
            InInteriorChunk(chunks, idx) =>
                out.val[idx] = StencilOp_adjoint(op, arr)[idx]

(***************************************************************************)
(* C8.  The Lipschitz estimate L = 2 * max|kernel| is sound:               *)
(* ||apply(x)||^2 <= L^2 * ||x||^2.                                        *)
(***************************************************************************)
LipschitzSound ==
    pc = "apply" =>
        NormSq(out.val) <= op._lipschitz * op._lipschitz * NormSq(arr)

(***************************************************************************)
(* Stencil with a boundary mode (pycsou.operator.linop.stencil.Stencil,    *)
(* built by _PartialDerivative), and the reference computation of its test *)
(* (TestStencil.data_apply): Trim(correlate(Pad(x))).                      *)
(* The operator is a record [arg_shape, kernel, kshape, center, mode] in   *)
(* the canonical form of the test: kernel, kshape and center are sequences *)
(* with one entry per stencil of the chain (one entry: non-separable; one  *)
(* entry per axis: separable).                                             *)
(***************************************************************************)
\* the sample that an array of shape sh shows at position p under the boundary
\* modes m (p may lie outside the array), 0 where a constant-mode axis is left
ExtendedAt(a, sh, m, p) ==
    LET src == [d \in 1 .. Len(sh) |-> ExtIndex(m[d], sh[d], p[d])]
    IN IF \E d \in 1 .. Len(sh) : src[d] = -1 THEN 0 ELSE a[src]

\* one stencil: y[i] = sum over q of xe[i - center + q] * k[q]
\* (x and w are the input and the kernel, each evaluated once)
Stencil_one(k, ks, c, m, a, sh) ==
    CHOOSE y \in
        {Array([idx \in Indices(sh) |->
                   SetSum(Indices(ks),
                          [q \in Indices(ks) |->
                              w[q] * ExtendedAt(x, sh, m,
                                         [d \in 1 .. Len(sh) |-> idx[d] - c[d] + q[d]])])]) :
            x \in {a}, w \in {k}} : TRUE

\* the chain of stencils, first to last
RECURSIVE Stencil_chain(_, _, _)
Stencil_chain(self, a, n) ==
    IF n = 0 THEN a
    ELSE Stencil_one(self.kernel[n], self.kshape[n], self.center[n], self.mode,
                     Stencil_chain(self, a, n - 1), self.arg_shape)

\* Stencil.apply
Stencil_apply(self, a) == OkVal(Stencil_chain(self, a, Len(self.kernel)))

\* data_apply: pad_width, in excess of what is strictly required
TestPadWidth(self) ==
    IF Len(self.kernel) = 1
    THEN [d \in 1 .. Len(self.arg_shape) |-> <<self.kshape[1][d], self.kshape[1][d]>>]
    ELSE [d \in 1 .. Len(self.arg_shape) |-> <<self.kshape[d][d], self.kshape[d][d]>>]

\* faulty variant: the center is handed over as the origin, without the n // 2 shift
OriginIsCenter(c, ks) == c

\* data_apply: origin = [cc - (n // 2) for (cc, n) in zip(c, k.shape)]
Origin(c, ks) == [d \in 1 .. Len(ks) |-> c[d] - (ks[d] \div 2)]

\* scipy.ndimage.correlate(input, weights, mode="constant", cval=0, origin):
\* tap q of the filter reads input[i + q - n // 2 - origin], 0 outside the input
snd_correlate(a, sh, k, ks, origin) ==
    [idx \in Indices(sh) |->
        SetSum(Indices(ks),
               [q \in Indices(ks) |->
                   LET p == [d \in 1 .. Len(sh) |->
                                idx[d] + q[d] - (ks[d] \div 2) - origin[d]]
                   IN IF p \in DOMAIN a THEN k[q] * a[p] ELSE 0])]

\* faulty variant: every pass of the loop correlates the padded input again
CorrelateAllFromInput(self, a, sh, n) ==
    IF n = 0 THEN a
    ELSE snd_correlate(a, sh, self.kernel[n], self.kshape[n],
                       Origin(self.center[n], self.kshape[n]))

\* data_apply: the loop "for (k, c) in zip(kernel, center)"
RECURSIVE CorrelateAll(_, _, _, _)
CorrelateAll(self, a, sh, n) ==
    IF n = 0 THEN a
    ELSE snd_correlate(CorrelateAll(self, a, sh, n - 1), sh,
                       self.kernel[n], self.kshape[n],
                       Origin(self.center[n], self.kshape[n]))

\* Trim(arg_shape, trim_width).apply
Trim_apply(sh, tw, a) ==
    [idx \in Indices([d \in 1 .. Len(sh) |-> sh[d] - tw[d][1] - tw[d][2]]) |->
        a[[d \in 1 .. Len(sh) |-> idx[d] + tw[d][1]]]]

\* TestStencil.data_apply: the expected output of Stencil.apply
data_apply(self, a) ==
    LET pw      == TestPadWidth(self)
        pad     == Pad_init(self.arg_shape, pw, self.mode)
        corr_in == Pad_apply(pad, a)
    IN IF ~corr_in.ok THEN corr_in
       ELSE OkVal(Trim_apply(pad._pad_shape, pw,
                      CorrelateAll(self, corr_in.val, pad._pad_shape,
                                   Len(self.kernel))))

\* the canonical form of a separable kernel (k0 along axis 0, k1 along axis 1)
\* with center (c0, c1): kernels of shape (K0, 1) and (1, K1), centers (c0, 0)
\* and (0, c1)
Separable(sh, k0, K0, k1, K1, c0, c1, m) ==
    [arg_shape |-> sh,
     kernel    |-> << [q \in Indices(<<K0, 1>>) |-> k0[<<q[1]>>]],
                      [q \in Indices(<<1, K1>>) |-> k1[<<q[2]>>]] >>,
     kshape    |-> << <<K0, 1>>, <<1, K1>> >>,
     center    |-> << <<c0, 0>>, <<0, c1>> >>,
     mode      |-> m]

NonSeparable(sh, k, ks, c, m) ==
    [arg_shape |-> sh, kernel |-> <<k>>, kshape |-> <<ks>>, center |-> <<c>>,
     mode |-> m]

IsSeparable(self) == Len(self.kernel) = 2

\* the single non-separable kernel outer(k0, k1) with the combined center
Joint(self) ==
    LET K0 == self.kshape[1][1]
        K1 == self.kshape[2][2]
    IN NonSeparable(self.arg_shape,
                    [q \in Indices(<<K0, K1>>) |->
                        self.kernel[1][<<q[1], 0>>] * self.kernel[2][<<0, q[2]>>]],
                    <<K0, K1>>,
                    <<self.center[1][1], self.center[2][2]>>,
                    self.mode)

(***************************************************************************)
(* Specification of Stencil with a boundary mode: construct a Stencil      *)
(* (non-separable in 1-D and 2-D, separable in 2-D) whose kernel fits the  *)
(* padding that the reference takes, then call apply, or compute the       *)
(* reference output.                                                       *)
(***************************************************************************)
BoundaryShapes1D == {<<4>>, <<10>>}

BoundaryShape2D == <<3, 3>>

\* kernel lengths per axis of the 2-D stencils
BoundaryLens2D == 1 .. 2

\* the kernels of the test: np.arange-like (1, 2, 3, ...) and all-ones
BoundaryKernels(ks) == {Ramp(ks), Ones(ks)}

\* the reference pads by the kernel shape on both sides: Pad must accept that
FitsPad(self) == Pad_init_ok(self.arg_shape, TestPadWidth(self), self.mode)

InitBoundary ==
    /\ pc = "init"
    /\ \/ \E sh \in BoundaryShapes1D, K \in 1 .. MaxK, m \in [1 .. 1 -> Modes] :
            \E k \in BoundaryKernels(<<K>>), c \in Indices(<<K>>) :
               op = NonSeparable(sh, k, <<K>>, c, m)
       \/ \E K0 \in BoundaryLens2D, K1 \in BoundaryLens2D, m \in [1 .. 2 -> Modes] :
            \E k \in BoundaryKernels(<<K0, K1>>), c \in Indices(<<K0, K1>>) :
               op = NonSeparable(BoundaryShape2D, k, <<K0, K1>>, c, m)
       \/ \E K0 \in BoundaryLens2D, K1 \in BoundaryLens2D, m \in [1 .. 2 -> Modes] :
            \E k0 \in BoundaryKernels(<<K0>>), k1 \in BoundaryKernels(<<K1>>),
               c0 \in 0 .. K0 - 1, c1 \in 0 .. K1 - 1 :
               op = Separable(BoundaryShape2D, k0, K0, k1, K1, c0, c1, m)
    /\ FitsPad(op)
    /\ arr = << >>
    /\ chunks = << >>
    /\ out = Failed

BoundaryInputs(sh) == Units(sh) \cup {Ramp(sh)}

BoundaryApply ==
    /\ pc = "init"
    /\ \E x \in BoundaryInputs(op.arg_shape) :
          /\ arr' = x
          /\ out' = Stencil_apply(op, x)
    /\ pc' = "apply"
    /\ UNCHANGED <<op, chunks>>

BoundaryReference ==
    /\ pc = "init"
    /\ \E x \in BoundaryInputs(op.arg_shape) :
          /\ arr' = x
          /\ out' = data_apply(op, x)
    /\ pc' = "data_apply"
    /\ UNCHANGED <<op, chunks>>

NextBoundary == BoundaryApply \/ BoundaryReference

SpecBoundary == InitBoundary /\ [][NextBoundary]_vars

(***************************************************************************)
(* C2.  Stencil(mode).apply(x) equals Trim(correlate(Pad(x, mode))), the   *)
(* correlation with zero fill outside the padded array, for every mode,    *)
(* kernel and center.  (N = 10, kernel [1, 1, 1], center 1, wrap: output 0 *)
(* is x[9] + x[0] + x[1].)                                                 *)
(***************************************************************************)
ApplyIsTrimCorrelatePad ==
    pc = "apply" =>
        /\ out.ok
        /\ data_apply(op, arr).ok
        /\ out.val = data_apply(op, arr).val

\* the instance of the claim: N = 10, kernel [1, 1, 1], center 1, wrap
ApplyWrapInstance ==
    /\ pc = "apply"
    /\ op.arg_shape = <<10>>
    /\ op.kernel = <<Ones(<<3>>)>>
    /\ op.center = << <<1>> >>
    /\ op.mode = <<"wrap">>
    /\ arr = Ramp(<<10>>)
    /\ out.val[<<0>>] = arr[<<9>>] + arr[<<0>>] + arr[<<1>>]
    /\ out.val = data_apply(op, arr).val

(***************************************************************************)
(* C5.  A separable kernel sequence [k0, k1], applied axis by axis, gives  *)
(* the output of the single non-separable kernel outer(k0, k1) with the    *)
(* combined center, for all per-axis boundary modes.                       *)
(***************************************************************************)
SeparableIsOuter ==
    IsSeparable(op) =>
        /\ pc = "apply" => out.val = Stencil_apply(Joint(op), arr).val
        /\ pc = "data_apply" =>
              /\ out.ok
              /\ out.val = data_apply(Joint(op), arr).val

\* the reference ran two genuine 1-D kernels, with different modes on the two
\* axes and an off-origin center, on an input that reaches the boundary
SeparableWitness ==
    /\ pc = "data_apply"
    /\ IsSeparable(op)
    /\ op.kshape = << <<2, 1>>, <<1, 2>> >>
    /\ op.center = << <<1, 0>>, <<0, 1>> >>
    /\ op.mode[1] # op.mode[2]
    /\ arr = Ramp(op.arg_shape)
    /\ out.ok
    /\ out.val[<<0, 0>>] # 0

(***************************************************************************)
(* Finite differences (pycsou/operator/linop/diff.py).                     *)
(* A Python argument that may be a scalar, a sequence or None is a record  *)
(* [kind, v] with kind in {"scalar", "tuple", "none"} and v the sequence   *)
(* of its elements.  diff_kwargs is a function from the names of the       *)
(* keyword arguments that were given to such records.  Coefficients are    *)
(* exact rationals: integer numerators over one positive denominator.      *)
(***************************************************************************)
Scalar(v) == [kind |-> "scalar", v |-> <<v>>]

Tuple(s) == [kind |-> "tuple", v |-> s]

None == [kind |-> "none", v |-> << >>]

\* dict.get(key, default)
Get(kw, key, default) == IF key \in DOMAIN kw THEN kw[key] ELSE default

\* dict.update({key: val})
Update(kw, key, val) ==
    [k \in DOMAIN kw \cup {key} |-> IF k = key THEN val ELSE kw[k]]

\* Python's sequence * n
Repeat(s, n) == [i \in 1 .. Len(s) * n |-> s[((i - 1) % Len(s)) + 1]]

\* _ensure_tuple: the assertion on the length of the parameter
ensure_tuple_ok(param, arg_shape) ==
    (Len(param.v) = 1) \/ (Len(param.v) <= Len(arg_shape))

\* faulty variant: the length of axes is checked only when order does not have
\* one entry per axis
sanitize_init_kwargs_unchecked_axes(order, arg_shape, sampling, diff_kwargs, axes) ==
    LET D      == Len(arg_shape)
        o      == order.v
        smp    == IF Len(sampling.v) = 1 THEN Repeat(sampling.v, D) ELSE sampling.v
        param1 == Get(diff_kwargs, "scheme", Scalar("forward"))
        param2 == Get(diff_kwargs, "accuracy", Scalar(1))
        p1     == param1.v
        p2     == param2.v
        ok     ==
            /\ ensure_tuple_ok(order, arg_shape)
            /\ ensure_tuple_ok(sampling, arg_shape)
            /\ \A i \in 1 .. Len(o) : o[i] >= 0
            /\ \A i \in 1 .. Len(smp) : smp[i] > 0
            /\ ensure_tuple_ok(param1, arg_shape)
            /\ ensure_tuple_ok(param2, arg_shape)
            /\ \A i \in 1 .. Len(p2) : p2[i] >= 0
            /\ IF Len(o) # D
               THEN /\ axes.kind # "none"
                    /\ ensure_tuple_ok(axes, arg_shape)
                    /\ Len(axes.v) = Len(o)
               ELSE axes.kind # "none" => ensure_tuple_ok(axes, arg_shape)
            /\ Len(p1) # Len(o) => Len(p1) = 1
            /\ Len(p2) # Len(o) => Len(p2) = 1
    IN [ok       |-> ok,
        order    |-> o,
        sampling |-> smp,
        param1   |-> IF Len(p1) # Len(o) THEN Repeat(p1, D) ELSE p1,
        param2   |-> IF Len(p2) # Len(o) THEN Repeat(p2, D) ELSE p2,
        axes     |-> IF axes.kind = "none" THEN [i \in 1 .. D |-> i - 1] ELSE axes.v]

\* _sanitize_init_kwargs for diff_method = "fd"; ok is the conjunction of the
\* assertions, in the order of the code
sanitize_init_kwargs(order, arg_shape, sampling, diff_kwargs, axes) ==
    LET D      == Len(arg_shape)
        o      == order.v
        smp    == IF Len(sampling.v) = 1 THEN Repeat(sampling.v, D) ELSE sampling.v
        param1 == Get(diff_kwargs, "scheme", Scalar("forward"))
        param2 == Get(diff_kwargs, "accuracy", Scalar(1))
        p1     == param1.v
        p2     == param2.v
        ok     ==
            /\ ensure_tuple_ok(order, arg_shape)
            /\ ensure_tuple_ok(sampling, arg_shape)
            /\ \A i \in 1 .. Len(o) : o[i] >= 0
            /\ \A i \in 1 .. Len(smp) : smp[i] > 0
            /\ ensure_tuple_ok(param1, arg_shape)
            /\ ensure_tuple_ok(param2, arg_shape)
            /\ \A i \in 1 .. Len(p2) : p2[i] >= 0
            /\ IF Len(o) # D
               THEN /\ axes.kind # "none"
                    /\ ensure_tuple_ok(axes, arg_shape)
                    /\ Len(axes.v) = Len(o)
               ELSE axes.kind # "none" =>
                       /\ ensure_tuple_ok(axes, arg_shape)
                       /\ Len(axes.v) = Len(o)
            /\ Len(p1) # Len(o) => Len(p1) = 1
            /\ Len(p2) # Len(o) => Len(p2) = 1
    IN [ok       |-> ok,
        order    |-> o,
        sampling |-> smp,
        param1   |-> IF Len(p1) # Len(o) THEN Repeat(p1, D) ELSE p1,
        param2   |-> IF Len(p2) # Len(o) THEN Repeat(p2, D) ELSE p2,
        axes     |-> IF axes.kind = "none" THEN [i \in 1 .. D |-> i - 1] ELSE axes.v]

Schemes == {"forward", "backward", "central"}

\* np.arange(lo, hi)
Arange(lo, hi) == [i \in 1 .. Max(hi - lo, 0) |-> lo + i - 1]

\* faulty variant: the central range stops one offset early
compute_ids_short(order, scheme, accuracy) ==
    IF scheme = "central"
    THEN LET n_coefs == 2 * ((order + 1) \div 2) - 1 + accuracy
         IN Arange(-(n_coefs \div 2), n_coefs \div 2)
    ELSE LET n_coefs == order + accuracy
         IN IF scheme = "forward" THEN Arange(0, n_coefs)
            ELSE Arange(-n_coefs + 1, 1)

\* faulty variant: the central range holds n_coefs offsets, whatever its parity
compute_ids_exact(order, scheme, accuracy) ==
    IF scheme = "central"
    THEN LET n_coefs == 2 * ((order + 1) \div 2) - 1 + accuracy
         IN Arange(-(n_coefs \div 2), n_coefs - (n_coefs \div 2))
    ELSE LET n_coefs == order + accuracy
         IN IF scheme = "forward" THEN Arange(0, n_coefs)
            ELSE Arange(-n_coefs + 1, 1)

\* _FiniteDifference._compute_ids (scheme is one of Schemes)
compute_ids(order, scheme, accuracy) ==
    IF scheme = "central"
    THEN LET n_coefs == 2 * ((order + 1) \div 2) - 1 + accuracy
         IN Arange(-(n_coefs \div 2), (n_coefs \div 2) + 1)
    ELSE LET n_coefs == order + accuracy
         IN IF scheme = "forward" THEN Arange(0, n_coefs)
            ELSE Arange(-n_coefs + 1, 1)

RECURSIVE Pow(_, _)
Pow(b, e) == IF e = 0 THEN 1 ELSE b * Pow(b, e - 1)

RECURSIVE Factorial(_)
Factorial(n) == IF n = 0 THEN 1 ELSE n * Factorial(n - 1)

\* the matrix M (a sequence of rows) without row 1 and column j
Minor(M, j) ==
    Array([r \in 1 .. Len(M) - 1 |->
              Array([c \in 1 .. Len(M) - 1 |-> M[r + 1][IF c < j THEN c ELSE c + 1]])])

RECURSIVE Det(_)
Det(M) ==
    CHOOSE d \in
        {IF Len(m) = 0 THEN 1
         ELSE IF Len(m) = 1 THEN m[1][1]
         ELSE SeqSum([j \in 1 .. Len(m) |->
                         (IF j % 2 = 1 THEN 1 ELSE -1) * m[1][j] * Det(Minor(m, j))]) :
            m \in {M}} : TRUE

\* np.vander(stencil_ids, increasing=True).T: row p holds the p-th powers
Vander_T(ids) ==
    Array([p \in 1 .. Len(ids) |-> Array([i \in 1 .. Len(ids) |-> Pow(ids[i], p - 1)])])

\* math.gcd, and the rational coefficients num / den in lowest terms
RECURSIVE Gcd(_, _)
Gcd(a, b) == IF b = 0 THEN Abs(a) ELSE Gcd(b, a % b)

RECURSIVE SeqGcd(_)
SeqGcd(s) == IF s = << >> THEN 0 ELSE Gcd(Head(s), SeqGcd(Tail(s)))

LowestTerms(num, den) ==
    CHOOSE r \in
        {CHOOSE q \in {[num |-> Array([j \in 1 .. Len(nm) |-> nm[j] \div g]),
                        den |-> dn \div g] : g \in {Gcd(dn, SeqGcd(nm))}} : TRUE :
            nm \in {num}, dn \in {den}} : TRUE

\* faulty variant: vec[order] = 1, without the factorial
compute_coefficients_no_factorial(stencil_ids, order, sampling) ==
    LET n   == Len(stencil_ids)
        mat == Vander_T(stencil_ids)
        vec == [p \in 1 .. n |-> IF p - 1 = order THEN 1 ELSE 0]
        det == Det(mat)
        sgn == IF det < 0 THEN -1 ELSE 1
    IN CHOOSE r \in
           {LowestTerms(Array([j \in 1 .. n |->
                           s * Det(Array([p \in 1 .. n |->
                                       Array([i \in 1 .. n |->
                                                 IF i = j THEN v[p] ELSE m[p][i]])]))]),
                        s * d * Pow(sampling, order)) :
                m \in {Array(mat)}, v \in {Array(vec)}, d \in {det}, s \in {sgn}} : TRUE

\* _FiniteDifference._compute_coefficients: np.linalg.solve(stencil_mat, vec)
\* by Cramer's rule, then coefs /= sampling ** order; the coefficients are
\* num[j] / den, in lowest terms
compute_coefficients(stencil_ids, order, sampling) ==
    LET n   == Len(stencil_ids)
        mat == Vander_T(stencil_ids)
        vec == [p \in 1 .. n |-> IF p - 1 = order THEN Factorial(order) ELSE 0]
        det == Det(mat)
        sgn == IF det < 0 THEN -1 ELSE 1
    IN CHOOSE r \in
           {LowestTerms(Array([j \in 1 .. n |->
                           s * Det(Array([p \in 1 .. n |->
                                       Array([i \in 1 .. n |->
                                                 IF i = j THEN v[p] ELSE m[p][i]])]))]),
                        s * d * Pow(sampling, order)) :
                m \in {Array(mat)}, v \in {Array(vec)}, d \in {det}, s \in {sgn}} : TRUE

\* list.index(0), 0-based
IndexOfZero(ids) == (CHOOSE i \in 1 .. Len(ids) : ids[i] = 0) - 1

\* _FiniteDifference along one axis, as PartialDerivative.finite_difference
\* calls it (order, scheme, axes, accuracy and sampling are scalars): the
\* coefficients and the center of that axis
FiniteDifference(order, arg_shape, scheme, axes, accuracy, sampling) ==
    LET san == sanitize_init_kwargs(Scalar(order), arg_shape, Scalar(sampling),
                   [k \in {"scheme", "accuracy"} |->
                       IF k = "scheme" THEN Scalar(scheme) ELSE Scalar(accuracy)],
                   Scalar(axes))
        ok  == /\ san.ok
               /\ san.param1[1] \in Schemes
               /\ san.order[1] < Len(compute_ids(san.order[1], san.param1[1], san.param2[1]))
        ids == compute_ids(san.order[1], san.param1[1], san.param2[1])
        cf  == compute_coefficients(ids, san.order[1], san.sampling[1])
    IN IF ~ok THEN [ok |-> FALSE, num |-> << >>, den |-> 1, center |-> 0]
       ELSE CHOOSE r \in {[ok |-> TRUE, num |-> c.num, den |-> c.den,
                           center |-> IndexOfZero(ids)] : c \in {cf}} : TRUE

\* the 1-D kernel num laid along axis ax (1-based) of a D-dimensional stencil
AxisShape(K, ax, D) == Array([d \in 1 .. D |-> IF d = ax THEN K ELSE 1])

AxisKernel(num, ax, D) ==
    Array([q \in Indices(AxisShape(Len(num), ax, D)) |-> num[q[ax] + 1]])

AxisCenter(c, ax, D) == Array([d \in 1 .. D |-> IF d = ax THEN c ELSE 0])

NoOp == [ok |-> FALSE]

\* PartialDerivative.finite_difference: one 1-D kernel per axis (np.array(1)
\* where order is 0), handed to _PartialDerivative as a separable Stencil.
\* The result is [ok, stencil, den, scheme, accuracy, sampling]: the Stencil
\* holds the numerators, den is the product of the denominators.
finite_difference(order, arg_shape, scheme, accuracy, sampling) ==
    LET D   == Len(arg_shape)
        san == sanitize_init_kwargs(Tuple(order), arg_shape, sampling,
                   [k \in {"scheme", "accuracy"} |->
                       IF k = "scheme" THEN scheme ELSE accuracy],
                   None)
        fd  == Array([ax \in 1 .. D |->
                   IF san.order[ax] > 0
                   THEN FiniteDifference(san.order[ax], arg_shape, san.param1[ax],
                                         ax - 1, san.param2[ax], san.sampling[ax])
                   ELSE [ok |-> TRUE, num |-> <<1>>, den |-> 1, center |-> 0]])
    IN IF ~(Len(order) = D /\ san.ok) THEN NoOp
       ELSE CHOOSE r \in
           {IF ~(\A ax \in 1 .. D : f[ax].ok) THEN NoOp
            ELSE [ok       |-> TRUE,
                  stencil  |-> [arg_shape |-> arg_shape,
                                kernel    |-> Array([ax \in 1 .. D |->
                                                 CHOOSE k \in {AxisKernel(nm, ax, D) :
                                                                   nm \in {f[ax].num}} : TRUE]),
                                kshape    |-> Array([ax \in 1 .. D |->
                                                 AxisShape(Len(f[ax].num), ax, D)]),
                                center    |-> Array([ax \in 1 .. D |->
                                                 AxisCenter(f[ax].center, ax, D)]),
                                mode      |-> Array([ax \in 1 .. D |-> "constant"])],
                  den      |-> Prod([ax \in 1 .. D |-> f[ax].den]),
                  scheme   |-> Array(s.param1),
                  accuracy |-> Array(s.param2),
                  sampling |-> Array(s.sampling)] :
                f \in {fd}, s \in {san}} : TRUE

\* _StackDiffHelper._stack_diff_ops for diff_method = "fd": one partial
\* derivative per direction (directions[i] is the sequence of the axes that
\* get order[i]); param1 is [nested, v], nested when its elements are
\* themselves sequences.  The result is [ok, ops].
stack_diff_ops(arg_shape, directions, order, param1, param2, sampling) ==
    LET D   == Len(arg_shape)
        ops == Array([i \in 1 .. Len(directions) |->
                   finite_difference(
                       [d \in 1 .. D |->
                           IF \E j \in 1 .. Len(directions[i]) : directions[i][j] = d - 1
                           THEN order[i] ELSE 0],
                       arg_shape,
                       Tuple(IF param1.nested THEN param1.v[i] ELSE param1.v),
                       Tuple(param2),
                       Tuple(sampling))])
    IN CHOOSE r \in {IF \A i \in 1 .. Len(directions) : o[i].ok
                      THEN [ok |-> TRUE, ops |-> o]
                      ELSE NoOp : o \in {ops}} : TRUE

\* directions = None: every axis
AllDirections(arg_shape) == [i \in 1 .. Len(arg_shape) |-> i - 1]

\* Gradient(arg_shape, directions, diff_method="fd", **diff_kwargs)
Gradient(arg_shape, directions, diff_kwargs) ==
    LET D    == Len(arg_shape)
        axes == SelectSeq(AllDirections(arg_shape),
                          LAMBDA i : \E j \in 1 .. Len(directions) : directions[j] = i)
        san  == sanitize_init_kwargs(Tuple([i \in 1 .. Len(directions) |-> 1]),
                    arg_shape, Get(diff_kwargs, "sampling", Scalar(1)),
                    diff_kwargs, Tuple(axes))
    IN IF ~san.ok THEN NoOp
       ELSE stack_diff_ops(arg_shape,
                           [i \in 1 .. Len(directions) |-> <<directions[i]>>],
                           san.order,
                           [nested |-> FALSE, v |-> san.param1],
                           san.param2, san.sampling)

\* faulty variant: Divergence keeps the scheme it was given
change_same(scheme) == scheme

\* Divergence: change = {"central": "central", "forward": "backward",
\* "backward": "forward"}
change(scheme) ==
    CASE scheme = "central"  -> "central"
      [] scheme = "forward"  -> "backward"
      [] scheme = "backward" -> "forward"

\* Divergence: the keyword arguments handed to Gradient: the scheme is
\* changed ("central" when not given), then every sequence argument gets a
\* leading "dummy"
Divergence_kwargs(diff_kwargs) ==
    LET scheme  == Get(diff_kwargs, "scheme", Scalar("central"))
        changed == Update(diff_kwargs, "scheme",
                       [kind |-> scheme.kind,
                        v    |-> [i \in 1 .. Len(scheme.v) |-> change(scheme.v[i])]])
    IN [k \in DOMAIN changed |->
           IF changed[k].kind = "tuple"
           THEN Tuple(<<"dummy">> \o changed[k].v)
           ELSE changed[k]]

\* Divergence(arg_shape, directions=None, diff_method="fd", **diff_kwargs):
\* block_diag of one single-direction Gradient per direction, then Sum
Divergence(arg_shape, diff_kwargs) ==
    LET kw  == Divergence_kwargs(diff_kwargs)
        pds == Array([i \in 1 .. Len(arg_shape) |-> Gradient(arg_shape, <<i - 1>>, kw)])
    IN IF \A i \in 1 .. Len(arg_shape) : pds[i].ok
       THEN [ok |-> TRUE, ops |-> Array([i \in 1 .. Len(arg_shape) |-> pds[i].ops[1]])]
       ELSE NoOp

\* _StackDiffHelper._check_directions_and_order for a sequence of pairs of
\* axes: the distinct axes of each pair, and 3 minus their number
check_directions(arg_shape, directions) ==
    \A i \in 1 .. Len(directions) : \A j \in 1 .. Len(directions[i]) :
        0 <= directions[i][j] /\ directions[i][j] <= Len(arg_shape) - 1

canonical_directions(directions) ==
    [i \in 1 .. Len(directions) |->
        IF directions[i][1] = directions[i][2] THEN <<directions[i][1]>>
        ELSE directions[i]]

canonical_order(directions) ==
    [i \in 1 .. Len(directions) |-> 3 - Cardinality({directions[i][1], directions[i][2]})]

\* Hessian(arg_shape, directions, diff_method="fd", **diff_kwargs), directions
\* a sequence of pairs of axes
Hessian(arg_shape, directions, diff_kwargs) ==
    LET D     == Len(arg_shape)
        san   == sanitize_init_kwargs(Tuple([i \in 1 .. D |-> 1]), arg_shape,
                     Get(diff_kwargs, "sampling", Scalar(1)), diff_kwargs, None)
        order == canonical_order(directions)
        \* "central" for the diagonal components when no scheme is given
        param1 == IF "scheme" \notin DOMAIN diff_kwargs
                  THEN [nested |-> TRUE,
                        v |-> [i \in 1 .. Len(order) |->
                                  IF order[i] = 2 THEN <<"central", "central">>
                                  ELSE san.param1]]
                  ELSE [nested |-> FALSE, v |-> san.param1]
    IN IF ~(san.ok /\ check_directions(arg_shape, directions)) THEN NoOp
       ELSE stack_diff_ops(arg_shape, canonical_directions(directions), order,
                           param1, san.param2, san.sampling)

\* Laplacian(arg_shape, directions=None, diff_method="fd", **diff_kwargs):
\* the diagonal of the Hessian, then Sum
Laplacian(arg_shape, diff_kwargs) ==
    Hessian(arg_shape, [i \in 1 .. Len(arg_shape) |-> <<i - 1, i - 1>>], diff_kwargs)

\* Stencil.adjoint: the correlations with the adjoint kernels (flipped
\* kernel, mirrored center), last stencil of the chain first
RECURSIVE Stencil_adjoint_chain(_, _, _)
Stencil_adjoint_chain(self, a, n) ==
    IF n > Len(self.kernel) THEN a
    ELSE Stencil_one(Array(xp_flip(self.kernel[n], self.kshape[n])), self.kshape[n],
                     CenterAdjoint(self.kshape[n], self.center[n]), self.mode,
                     Stencil_adjoint_chain(self, a, n + 1), self.arg_shape)

Stencil_adjoint(self, a) == Stencil_adjoint_chain(self, a, 1)

\* the common denominator of a stack of partial derivatives, and the factor
\* that brings the numerators of its i-th operator to it
StackDen(st) == Prod([i \in 1 .. Len(st.ops) |-> st.ops[i].den])

StackScale(st, i) == StackDen(st) \div st.ops[i].den

\* vstack(dif_op).apply: one output array per operator
Stack_apply(st, x) ==
    [num |-> Array([i \in 1 .. Len(st.ops) |->
                 CHOOSE z \in {Array([idx \in DOMAIN x |-> scale * y[idx]]) :
                                  y \in {Stencil_apply(st.ops[i].stencil, x).val},
                                  scale \in {StackScale(st, i)}} : TRUE]),
     den |-> StackDen(st)]

\* vstack(dif_op).adjoint: the sum of the adjoints, each on its own component
Stack_adjoint(st, y) ==
    [num |-> CHOOSE r \in
                 {Array([idx \in Indices(st.ops[1].stencil.arg_shape) |->
                            SeqSum([i \in 1 .. Len(st.ops) |-> scale[i] * z[i][idx]])]) :
                     z \in {Array([i \in 1 .. Len(st.ops) |->
                                     Stencil_adjoint(st.ops[i].stencil, y[i])])},
                     scale \in {Array([i \in 1 .. Len(st.ops) |-> StackScale(st, i)])}} : TRUE,
     den |-> StackDen(st)]

\* (Sum * block_diag(ops)).apply: the sum of the operators, each applied to its
\* own component y[i] (Divergence); Laplacian applies them all to the same input
SumStack_apply(st, y) ==
    [num |-> CHOOSE r \in
                 {Array([idx \in Indices(st.ops[1].stencil.arg_shape) |->
                            SeqSum([i \in 1 .. Len(st.ops) |-> scale[i] * z[i][idx]])]) :
                     z \in {Array([i \in 1 .. Len(st.ops) |->
                                     Stencil_apply(st.ops[i].stencil, y[i]).val])},
                     scale \in {Array([i \in 1 .. Len(st.ops) |-> StackScale(st, i)])}} : TRUE,
     den |-> StackDen(st)]

\* dv.apply(g.apply(x)): the sum-stack dv applied to the output of the stack g
Compose_apply(dv, g, x) ==
    CHOOSE r \in {[num |-> SumStack_apply(dv, gx.num).num,
                    den |-> StackDen(dv) * gx.den] : gx \in {Stack_apply(g, x)}} : TRUE

(***************************************************************************)
(* Specification of the differential operators: choose arg_shape and the   *)
(* keyword arguments, construct Gradient, Divergence and Laplacian with    *)
(* them, then call apply or adjoint.  op = [arg_shape, diff_kwargs,        *)
(* gradient, divergence, laplacian]; an operator whose construction raised *)
(* is NoOp, and calling it fails.                                          *)
(***************************************************************************)
DiffShapes == {<<6>>, <<5, 5>>}

DiffSamplings == {2}

\* the scheme is left out, one name, or one name per axis
SchemeArgs(D) ==
    {None} \cup {Scalar(sc) : sc \in Schemes}
           \cup {Tuple([d \in 1 .. D |-> sc]) : sc \in {"forward", "central"}}

AccuracyArgs == {None} \cup {Scalar(a) : a \in 1 .. MaxAcc}

SamplingArgs == {None} \cup {Scalar(h) : h \in DiffSamplings}

\* the keyword arguments that were given (the others are left at their defaults)
MakeKwargs(sch, acc, smp) ==
    LET arg(k) == CASE k = "scheme" -> sch [] k = "accuracy" -> acc [] k = "sampling" -> smp
    IN [k \in {k \in {"scheme", "accuracy", "sampling"} : arg(k).kind # "none"} |-> arg(k)]

InitDiff ==
    /\ pc = "init"
    /\ \E sh \in DiffShapes :
         \E sch \in SchemeArgs(Len(sh)), acc \in AccuracyArgs, smp \in SamplingArgs :
          \E kw \in {MakeKwargs(sch, acc, smp)} :
            op = [arg_shape   |-> sh,
                  diff_kwargs |-> kw,
                  gradient    |-> Gradient(sh, AllDirections(sh), kw),
                  divergence  |-> Divergence(sh, kw),
                  laplacian   |-> Laplacian(sh, kw)]
    /\ arr = << >>
    /\ chunks = << >>
    /\ out = Failed

\* the monomials of degree <= 2 in D variables, as exponent vectors
Monomials(D) == {e \in [1 .. D -> 0 .. 2] : SeqSum(e) <= 2}

\* coefficients of the polynomials tried: each monomial alone, and their sum
PolyCoefs(D) ==
    {[e \in Monomials(D) |-> IF e = m THEN 1 ELSE 0] : m \in Monomials(D)}
    \cup {[e \in Monomials(D) |-> 1]}

\* samples of these polynomials on the grid of shape sh
Polynomials(sh) ==
    {Array([idx \in Indices(sh) |->
         SetSum(Monomials(Len(sh)),
                [e \in Monomials(Len(sh)) |->
                    cf[e] * Prod([d \in 1 .. Len(sh) |-> Pow(idx[d], e[d])])])]) :
     cf \in PolyCoefs(Len(sh))}

\* vector fields: a unit impulse in one component, or a ramp in every component
Fields(sh) ==
    {[d \in 1 .. Len(sh) |-> IF d = c THEN u ELSE Zeros(sh)] :
        c \in 1 .. Len(sh), u \in Units(sh)}
    \cup {[d \in 1 .. Len(sh) |-> Ramp(sh)]}

DiffGradientApply ==
    /\ pc = "init"
    /\ \E x \in Units(op.arg_shape) \cup {Ramp(op.arg_shape)} :
          /\ arr' = x
          /\ out' = IF op.gradient.ok THEN OkVal(Stack_apply(op.gradient, x)) ELSE Failed
    /\ pc' = "gradient"
    /\ UNCHANGED <<op, chunks>>

DiffGradientAdjoint ==
    /\ pc = "init"
    /\ \E y \in Fields(op.arg_shape) :
          /\ arr' = y
          /\ out' = IF op.gradient.ok THEN OkVal(Stack_adjoint(op.gradient, y)) ELSE Failed
    /\ pc' = "gradient_adjoint"
    /\ UNCHANGED <<op, chunks>>

DiffDivergenceApply ==
    /\ pc = "init"
    /\ \E y \in Fields(op.arg_shape) :
          /\ arr' = y
          /\ out' = IF op.divergence.ok THEN OkVal(SumStack_apply(op.divergence, y))
                    ELSE Failed
    /\ pc' = "divergence"
    /\ UNCHANGED <<op, chunks>>

\* Divergence(arg_shape, **kw).apply(Gradient(arg_shape, **kw).apply(x))
DiffDivGrad ==
    /\ pc = "init"
    /\ \E x \in Polynomials(op.arg_shape) :
          /\ arr' = x
          /\ out' = IF op.gradient.ok /\ op.divergence.ok
                    THEN OkVal(Compose_apply(op.divergence, op.gradient, x))
                    ELSE Failed
    /\ pc' = "divgrad"
    /\ UNCHANGED <<op, chunks>>

DiffLaplacianApply ==
    /\ pc = "init"
    /\ \E x \in Polynomials(op.arg_shape) :
          /\ arr' = x
          /\ out' = IF op.laplacian.ok
                    THEN OkVal(SumStack_apply(op.laplacian,
                                              [i \in 1 .. Len(op.laplacian.ops) |-> x]))
                    ELSE Failed
    /\ pc' = "laplacian"
    /\ UNCHANGED <<op, chunks>>

NextDiff ==
    \/ DiffGradientApply
    \/ DiffGradientAdjoint
    \/ DiffDivergenceApply
    \/ DiffDivGrad
    \/ DiffLaplacianApply

SpecDiff == InitDiff /\ [][NextDiff]_vars

\* how far, along axis d, the kernels of a stack of operators reach
StackRadius(st, d) ==
    LET reach(i, n) == Max(st.ops[i].stencil.center[n][d],
                           st.ops[i].stencil.kshape[n][d] - 1
                               - st.ops[i].stencil.center[n][d])
        all == {reach(i, n) : i \in 1 .. Len(st.ops), n \in 1 .. Len(st.ops[1].stencil.kernel)}
    IN CHOOSE r \in all : \A q \in all : q <= r

\* the positions at least r[d] away from both ends of every axis d
InteriorBy(sh, r) ==
    {idx \in Indices(sh) :
        \A d \in 1 .. Len(sh) : r[d] <= idx[d] /\ idx[d] <= sh[d] - 1 - r[d]}

\* is the scheme argument one scheme name, shared by all axes?
SchemeGiven(kw) == "scheme" \in DOMAIN kw /\ kw["scheme"].kind = "scalar"

DivGradIsLaplacian ==
    (pc = "divgrad" /\ DOMAIN op.diff_kwargs = {}) =>
        \A sh \in {op.arg_shape}, g \in {op.gradient}, dv \in {op.divergence},
           lp \in {op.laplacian} :
           /\ out.ok
           /\ lp.ok
           /\ \A lx \in {SumStack_apply(lp, [i \in 1 .. Len(lp.ops) |-> arr])} :
              \A idx \in InteriorBy(sh, [d \in 1 .. Len(sh) |->
                                           StackRadius(g, d) + StackRadius(dv, d)]) :
                 out.val.num[idx] * lx.den = lx.num[idx] * out.val.den

(***************************************************************************)
(* Directional derivatives of second order (diff.py).  A direction is a    *)
(* vector of integers whose Euclidean norm is an integer, so that the      *)
(* normalised direction is exact: components v[i] over the norm.           *)
(***************************************************************************)
\* np.arange(D**2).reshape(D, D): the pair (row, column) of each flat index
RowMajorPairs(D) == [n \in 1 .. D * D |-> <<(n - 1) \div D, (n - 1) % D>>]

\* itertools.combinations_with_replacement(range(D), 2), which is also the
\* order of dummy_mat[np.triu_indices(D, k=0)]: the pairs (i, j) with i <= j
AllPairs(D) == SelectSeq(RowMajorPairs(D), LAMBDA p : p[1] <= p[2])

\* xp.linalg.norm(directions, axis=0)
linalg_norm(v) ==
    LET sq == SeqSum([i \in 1 .. Len(v) |-> v[i] * v[i]])
    IN CHOOSE n \in 0 .. sq : n * n = sq

\* the weights of the Hessian components for the pair of directions (v1, v2):
\* the outer product of the normalised directions, its strictly upper
\* triangular entries doubled, restricted to its upper triangular part
norm_dirs(D, v1, v2) ==
    [num |-> Array([c \in 1 .. Len(AllPairs(D)) |->
                 (IF D > 1 /\ AllPairs(D)[c][1] # AllPairs(D)[c][2] THEN 2 ELSE 1)
                     * v1[AllPairs(D)[c][1] + 1] * v2[AllPairs(D)[c][2] + 1]]),
     den |-> linalg_norm(v1) * linalg_norm(v2)]

\* DirectionalDerivative(arg_shape, order=2, directions=(v1, v2),
\* diff_method="fd", **diff_kwargs): [ok, diff, diag]
DirectionalDerivative(arg_shape, directions, diff_kwargs) ==
    LET D    == Len(arg_shape)
        diff == Hessian(arg_shape, AllPairs(D), diff_kwargs)
    IN IF ~(/\ Len(directions) = 2
            /\ Len(directions[1]) = Len(directions[2])
            /\ Len(directions[1]) = D
            /\ diff.ok)
       THEN NoOp
       ELSE [ok |-> TRUE, diff |-> diff,
             diag |-> norm_dirs(D, directions[1], directions[2])]

\* DirectionalHessian(arg_shape, directions, diff_method="fd", **diff_kwargs):
\* [ok, hess, dop], one diagonal operator per pair of directions (k1 <= k2)
DirectionalHessian(arg_shape, directions, diff_kwargs) ==
    LET D    == Len(arg_shape)
        hess == Hessian(arg_shape, AllPairs(D), diff_kwargs)
        prs  == AllPairs(Len(directions))
    IN IF ~hess.ok THEN NoOp
       ELSE [ok |-> TRUE, hess |-> hess,
             dop |-> Array([c \in 1 .. Len(prs) |->
                        norm_dirs(D, directions[prs[c][1] + 1], directions[prs[c][2] + 1])])]

\* (Sum(axis=0) * DiagonalOp(diag)).apply on the output H of the Hessian: the
\* weighted sum of its components
WeightedSum(diag, H, sh) ==
    [num |-> Array([idx \in Indices(sh) |->
                 SeqSum([c \in 1 .. Len(H.num) |-> diag.num[c] * H.num[c][idx]])]),
     den |-> diag.den * H.den]

\* (sop * dop * diff).apply
DirectionalDerivative_apply(self, x) ==
    CHOOSE r \in {WeightedSum(dg, H, sh) :
                     dg \in {self.diag}, H \in {Stack_apply(self.diff, x)},
                     sh \in {self.diff.ops[1].stencil.arg_shape}} : TRUE

\* (sop * vstack(dop) * hess).apply: one weighted sum per pair of directions
DirectionalHessian_apply(self, x) ==
    CHOOSE r \in {Array([c \in 1 .. Len(dp) |-> WeightedSum(dp[c], H, sh)]) :
                     dp \in {self.dop}, H \in {Stack_apply(self.hess, x)},
                     sh \in {self.hess.ops[1].stencil.arg_shape}} : TRUE

(***************************************************************************)
(* Specification of the second-order operators: choose arg_shape, the      *)
(* scheme and two directions, construct Hessian, DirectionalDerivative and *)
(* DirectionalHessian with them, then call apply.  op = [arg_shape,        *)
(* diff_kwargs, directions, hessian, dir_derivative, dir_hessian].         *)
(***************************************************************************)
HessShapes == {<<4>>, <<3, 3>>, <<2, 2, 2>>}

\* directions of integer norm
DirVectors(D) ==
    CASE D = 1 -> {<<1>>, <<2>>}
      [] D = 2 -> {<<1, 0>>, <<0, 1>>, <<3, 4>>}
      [] D = 3 -> {<<1, 0, 0>>, <<0, 0, 1>>, <<2, 1, 2>>}

HessSchemeArgs == {None, Scalar("forward"), Scalar("central")}

InitHess ==
    /\ pc = "init"
    /\ \E sh \in HessShapes :
         \E sch \in HessSchemeArgs, v1 \in DirVectors(Len(sh)), v2 \in DirVectors(Len(sh)) :
          \E kw \in {MakeKwargs(sch, None, None)} :
            op = [arg_shape      |-> sh,
                  diff_kwargs    |-> kw,
                  directions     |-> <<v1, v2>>,
                  hessian        |-> Hessian(sh, AllPairs(Len(sh)), kw),
                  dir_derivative |-> DirectionalDerivative(sh, <<v1, v2>>, kw),
                  dir_hessian    |-> DirectionalHessian(sh, <<v1, v2>>, kw)]
    /\ arr = << >>
    /\ chunks = << >>
    /\ out = Failed

\* the product of the coordinates, each counted from 1
CoordProduct(sh) == [idx \in Indices(sh) |-> Prod([d \in 1 .. Len(sh) |-> idx[d] + 1])]

HessInputs(sh) ==
    {Array(Ramp(sh)), Array(CoordProduct(sh)), Array(Unit(sh, [d \in 1 .. Len(sh) |-> 1]))}

HessApply ==
    /\ pc = "init"
    /\ \E x \in HessInputs(op.arg_shape) :
          /\ arr' = x
          /\ out' = IF op.hessian.ok THEN OkVal(Stack_apply(op.hessian, x)) ELSE Failed
    /\ pc' = "hessian"
    /\ UNCHANGED <<op, chunks>>

DirDerivativeApply ==
    /\ pc = "init"
    /\ \E x \in HessInputs(op.arg_shape) :
          /\ arr' = x
          /\ out' = IF op.dir_derivative.ok
                    THEN OkVal(DirectionalDerivative_apply(op.dir_derivative, x))
                    ELSE Failed
    /\ pc' = "dir_derivative"
    /\ UNCHANGED <<op, chunks>>

DirHessianApply ==
    /\ pc = "init"
    /\ \E x \in HessInputs(op.arg_shape) :
          /\ arr' = x
          /\ out' = IF op.dir_hessian.ok
                    THEN OkVal(DirectionalHessian_apply(op.dir_hessian, x))
                    ELSE Failed
    /\ pc' = "dir_hessian"
    /\ UNCHANGED <<op, chunks>>

NextHess ==
    \/ HessApply
    \/ DirDerivativeApply
    \/ DirHessianApply

SpecHess == InitHess /\ [][NextHess]_vars

\* the place of the second derivative along axes i and j in the output of the
\* Hessian (which holds the pairs i <= j only)
PairIndex(D, i, j) ==
    CHOOSE c \in 1 .. Len(AllPairs(D)) : AllPairs(D)[c] = <<Min(i, j), Max(i, j)>>

\* v1^T H v2 at position idx, times the norms of v1 and v2 and the
\* denominator of H
BilinearForm(v1, v2, H, idx) ==
    SeqSum([n \in 1 .. Len(v1) * Len(v1) |->
               v1[RowMajorPairs(Len(v1))[n][1] + 1] * v2[RowMajorPairs(Len(v1))[n][2] + 1]
                   * H.num[PairIndex(Len(v1), RowMajorPairs(Len(v1))[n][1],
                                     RowMajorPairs(Len(v1))[n][2])][idx]])

\* does the weighted sum r equal v1^T H v2 at every position?
IsBilinearForm(r, v1, v2, H, sh) ==
    \A idx \in Indices(sh) :
        r.num[idx] * (linalg_norm(v1) * linalg_norm(v2) * H.den)
            = BilinearForm(v1, v2, H, idx) * r.den

(***************************************************************************)
(* C11.  For any two directions v1 and v2, the second-order                *)
(* DirectionalDerivative with directions (v1, v2), and every component of  *)
(* DirectionalHessian, returns the symmetric bilinear form v1^T H v2 =     *)
(* sum over all i, j of v1[i] * v2[j] * H_ij of the normalised directions, *)
(* at every position, H being the output of the Hessian on the same input. *)
(***************************************************************************)
DirectionalIsBilinearForm ==
    /\ (pc = "dir_derivative" /\ out.ok) =>
          \A H \in {Stack_apply(op.hessian, arr)} :
             IsBilinearForm(out.val, op.directions[1], op.directions[2], H, op.arg_shape)
    /\ (pc = "dir_hessian" /\ out.ok) =>
          \A H \in {Stack_apply(op.hessian, arr)} :
             \A c \in 1 .. Len(out.val) :
                IsBilinearForm(out.val[c], op.directions[AllPairs(2)[c][1] + 1],
                               op.directions[AllPairs(2)[c][2] + 1], H, op.arg_shape)

(***************************************************************************)
(* C16.  For an arg_shape of any number of axes, a Hessian constructed     *)
(* without a scheme is built, its pure second-order components use the     *)
(* central scheme and its mixed components the scheme that applies         *)
(* otherwise (the default, forward).                                       *)
(***************************************************************************)
HessianDefaultScheme ==
    "scheme" \notin DOMAIN op.diff_kwargs =>
        /\ op.hessian.ok
        /\ \A c \in 1 .. Len(AllPairs(Len(op.arg_shape))) :
              \A n \in 1 .. 2 :
                 op.hessian.ops[c].scheme[AllPairs(Len(op.arg_shape))[c][n] + 1] =
                     (IF AllPairs(Len(op.arg_shape))[c][1] = AllPairs(Len(op.arg_shape))[c][2]
                      THEN "central" ELSE "forward")

(***************************************************************************)
(* The calls _FiniteDifference(order, arg_shape, scheme, axes, accuracy,   *)
(* sampling) and _GaussianDerivative(order, arg_shape, sigma, axes,        *)
(* truncate, sampling) with arguments of any form (diff.py): how the call  *)
(* ends.  An outcome is [err, at, axes, fills]: err is the exception       *)
(* raised ("none" when the call returns), at the part of the call that     *)
(* raised it, axes the sanitised axes, and fills[i] what _fill_coefs(i)    *)
(* computed.                                                               *)
(***************************************************************************)
\* _sanitize_init_kwargs for diff_method = "gd"; ok is the conjunction of the
\* assertions, in the order of the code
sanitize_init_kwargs_gd(order, arg_shape, sampling, diff_kwargs, axes) ==
    LET D      == Len(arg_shape)
        o      == order.v
        smp    == IF Len(sampling.v) = 1 THEN Repeat(sampling.v, D) ELSE sampling.v
        param1 == Get(diff_kwargs, "sigma", Scalar(1))
        param2 == Get(diff_kwargs, "truncate", Scalar(3))
        p1     == param1.v
        p2     == param2.v
        ok     ==
            /\ ensure_tuple_ok(order, arg_shape)
            /\ ensure_tuple_ok(sampling, arg_shape)
            /\ \A i \in 1 .. Len(o) : o[i] >= 0
            /\ \A i \in 1 .. Len(smp) : smp[i] > 0
            /\ ensure_tuple_ok(param1, arg_shape)
            /\ ensure_tuple_ok(param2, arg_shape)
            /\ \A i \in 1 .. Len(p1) : p1[i] >= 0
            /\ \A i \in 1 .. Len(p2) : p2[i] > 0
            /\ IF Len(o) # D
               THEN /\ axes.kind # "none"
                    /\ ensure_tuple_ok(axes, arg_shape)
                    /\ Len(axes.v) = Len(o)
               ELSE axes.kind # "none" =>
                       /\ ensure_tuple_ok(axes, arg_shape)
                       /\ Len(axes.v) = Len(o)
            /\ Len(p1) # Len(o) => Len(p1) = 1
            /\ Len(p2) # Len(o) => Len(p2) = 1
    IN [ok       |-> ok,
        order    |-> o,
        sampling |-> smp,
        param1   |-> IF Len(p1) # Len(o) THEN Repeat(p1, D) ELSE p1,
        param2   |-> IF Len(p2) # Len(o) THEN Repeat(p2, D) ELSE p2,
        axes     |-> IF axes.kind = "none" THEN [i \in 1 .. D |-> i - 1] ELSE axes.v]

\* the call raised err in the part `at` of the function
Raised(err, at, axes, fills) == [err |-> err, at |-> at, axes |-> axes, fills |-> fills]

\* _create_kernel: the loop over enumerate(axes).  fills[i] is the outcome of
\* _fill_coefs(i); the first failure ends the loop, either the exception of
\* _fill_coefs(i) or the IndexError of the assignment to index axes[i] of a
\* list of len(arg_shape) elements
create_kernel(arg_shape, axes, fills) ==
    LET D      == Len(arg_shape)
        bad(i) == \/ fills[i].err # "none"
                  \/ axes[i] >= D
                  \/ axes[i] < -D
        first  == CHOOSE i \in 1 .. Len(axes) : bad(i) /\ \A j \in 1 .. i - 1 : ~bad(j)
    IN IF \A i \in 1 .. Len(axes) : ~bad(i)
       THEN Raised("none", "return", axes, fills)
       ELSE Raised(IF fills[first].err # "none" THEN fills[first].err ELSE "IndexError",
                   IF fills[first].err # "none" THEN "fill_coefs" ELSE "create_kernel",
                   axes, SubSeq(fills, 1, first))

\* _FiniteDifference._fill_coefs(i), on the sanitised arguments
FiniteDifference_fill_coefs(san, i) ==
    IF san.param1[i] \notin Schemes
    THEN [err |-> "ValueError", ids |-> << >>]
    ELSE CHOOSE r \in
        {IF i > Len(san.sampling) \/ san.order[i] >= Len(ids)
         THEN [err |-> "IndexError", ids |-> ids]
         ELSE CHOOSE f \in
                {[err |-> "none", ids |-> ids, num |-> cf.num, den |-> cf.den,
                  center |-> IndexOfZero(ids)] :
                    cf \in {compute_coefficients(ids, san.order[i], san.sampling[i])}} : TRUE :
            ids \in {Array(compute_ids(san.order[i], san.param1[i], san.param2[i]))}} : TRUE

\* _FiniteDifference(order, arg_shape, scheme, axes, accuracy, sampling)
FiniteDifference_call(order, arg_shape, scheme, axes, accuracy, sampling) ==
    CHOOSE r \in
        {IF ~san.ok THEN Raised("AssertionError", "sanitize", << >>, << >>)
         ELSE CHOOSE k \in
                {create_kernel(arg_shape, san.axes, fills) :
                    fills \in {Array([i \in 1 .. Len(san.axes) |->
                                         FiniteDifference_fill_coefs(san, i)])}} : TRUE :
            san \in {sanitize_init_kwargs(order, arg_shape, sampling,
                         [k \in {"scheme", "accuracy"} |->
                             IF k = "scheme" THEN scheme ELSE accuracy],
                         axes)}} : TRUE

\* int(truncate * float(sigma / sampling) + 0.5), for integers
GaussianRadius(sigma, truncate, sampling) ==
    (2 * truncate * sigma + sampling) \div (2 * sampling)

\* _GaussianDerivative._fill_coefs(i), on the sanitised arguments: the ways it
\* can end.  The coefficients are scipy's; with sigma = 0 scipy divides by
\* sigma ** 2, which raises ZeroDivisionError for a Python float and gives a
\* kernel of NaN for a NumPy float.
GaussianDerivative_fill_coefs(san, i) ==
    LET radius == GaussianRadius(san.param1[i], san.param2[i], san.sampling[i])
        ids    == Arange(-radius, radius + 1)
    IN IF i > Len(san.sampling) THEN {[err |-> "IndexError", ids |-> << >>]}
       ELSE IF san.param1[i] = 0
       THEN {[err |-> "ZeroDivisionError", ids |-> << >>],
             [err |-> "none", ids |-> ids, coefs |-> "nan", center |-> radius]}
       ELSE {[err |-> "none", ids |-> ids, coefs |-> "gaussian", center |-> radius]}

\* _GaussianDerivative(order, arg_shape, sigma, axes, truncate, sampling): the
\* ways the call can end
GaussianDerivative_call(order, arg_shape, sigma, axes, truncate, sampling) ==
    UNION
        {IF ~san.ok THEN {Raised("AssertionError", "sanitize", << >>, << >>)}
         ELSE {create_kernel(arg_shape, san.axes, fills) :
                  fills \in {fl \in [1 .. Len(san.axes) ->
                                       UNION {GaussianDerivative_fill_coefs(san, i) :
                                                 i \in 1 .. Len(san.axes)}] :
                               \A i \in 1 .. Len(san.axes) :
                                   fl[i] \in GaussianDerivative_fill_coefs(san, i)}} :
            san \in {sanitize_init_kwargs_gd(order, arg_shape, sampling,
                         [k \in {"sigma", "truncate"} |->
                             IF k = "sigma" THEN sigma ELSE truncate],
                         axes)}}

(***************************************************************************)
(* Specification of the kernel constructors: choose the arguments of a     *)
(* call of _FiniteDifference or _GaussianDerivative, make the call, then   *)
(* correlate the 1-D finite-difference kernel it returned with samples of  *)
(* a polynomial.  op = [method, order, arg_shape, axes, sampling] with     *)
(* scheme and accuracy for "fd", sigma and truncate for "gd".              *)
(***************************************************************************)
KernelShapes == {<<6>>, <<8>>}

KernelSamplings == {1, 2}

\* calls with scalar arguments on a 1-D arg_shape, valid and invalid
ScalarFdCalls ==
    {[method |-> "fd", order |-> Scalar(n), arg_shape |-> sh, scheme |-> Scalar(sc),
      axes |-> Scalar(0), accuracy |-> Scalar(a), sampling |-> Scalar(h)] :
        n \in -1 .. MaxOrder, sh \in KernelShapes, sc \in Schemes \cup {"upwind"},
        a \in -1 .. MaxAcc, h \in KernelSamplings}

\* forms of order and axes, on arg_shapes of two and three axes
OrderForms == {Scalar(1), Tuple(<<1>>), Tuple(<<1, 2>>), Tuple(<<1, 2, 1>>)}

AxesForms == {None, Scalar(0), Scalar(3), Tuple(<<1>>), Tuple(<<0, 1>>), Tuple(<<0, 1, 2>>)}

AxesFdCalls ==
    {[method |-> "fd", order |-> o, arg_shape |-> sh, scheme |-> Scalar("forward"),
      axes |-> ax, accuracy |-> Scalar(1), sampling |-> Scalar(1)] :
        o \in OrderForms, sh \in {<<4, 4>>, <<3, 3, 3>>}, ax \in AxesForms}

GdCalls ==
    {[method |-> "gd", order |-> Scalar(n), arg_shape |-> <<6>>, sigma |-> Scalar(sg),
      axes |-> Scalar(0), truncate |-> Scalar(t), sampling |-> Scalar(h)] :
        n \in -1 .. 1, sg \in -1 .. 2, t \in {0, 3}, h \in KernelSamplings}

InitKernel ==
    /\ pc = "init"
    /\ op \in ScalarFdCalls \cup AxesFdCalls \cup GdCalls
    /\ arr = << >>
    /\ chunks = << >>
    /\ out = Failed

\* the call: out = [ok, val], val the outcome
KernelCall ==
    /\ pc = "init"
    /\ \E o \in IF op.method = "fd"
                THEN {FiniteDifference_call(op.order, op.arg_shape, op.scheme, op.axes,
                                            op.accuracy, op.sampling)}
                ELSE GaussianDerivative_call(op.order, op.arg_shape, op.sigma, op.axes,
                                             op.truncate, op.sampling) :
          out' = [ok |-> o.err = "none", val |-> o]
    /\ pc' = IF out'.ok THEN "built" ELSE "raised"
    /\ UNCHANGED <<op, arr, chunks>>

\* samples of the polynomial with coefficients cf (cf[p + 1] that of t^p) at
\* the positions t = i * h
PolySamples(cf, N, h) ==
    Array([idx \in Indices(<<N>>) |->
              SeqSum([p \in 1 .. Len(cf) |-> cf[p] * Pow(idx[1] * h, p - 1)])])

\* the polynomials tried on a kernel of order n and accuracy a: each monomial
\* of degree <= n + a, and the sum of those of degree <= n + a - 1
KernelPolys(n, a) ==
    {[p \in 1 .. n + a + 1 |-> IF p = q THEN 1 ELSE 0] : q \in 1 .. n + a + 1}
    \cup {[p \in 1 .. n + a |-> 1]}

\* the kernel returned by a call with scalar arguments, correlated with the
\* samples (Stencil with mode "constant"); the output, res, is [num, den]
KernelApply ==
    /\ pc = "built"
    /\ op \in ScalarFdCalls
    /\ \E cf \in KernelPolys(op.order.v[1], op.accuracy.v[1]) :
        \E x \in {PolySamples(cf, op.arg_shape[1], op.sampling.v[1])},
           k \in {LowestTerms(out.val.fills[1].num, out.val.fills[1].den)} :
          /\ arr' = x
          /\ out' = [ok  |-> TRUE,
                     val |-> out.val,
                     res |-> [num |-> Stencil_one(AxisKernel(k.num, 1, 1), <<Len(k.num)>>,
                                                  <<out.val.fills[1].center>>,
                                                  <<"constant">>, x, op.arg_shape),
                              den |-> k.den]]
    /\ pc' = "applied"
    /\ UNCHANGED <<op, chunks>>

NextKernel ==
    \/ KernelCall
    \/ KernelApply

SpecKernel == InitKernel /\ [][NextKernel]_vars

\* is the call one with scalar arguments, made and ended?
ScalarFdDone == pc # "init" /\ op \in ScalarFdCalls

\* n_coefs of the central scheme
CentralCoefs(n, a) == 2 * ((n + 1) \div 2) - 1 + a

\* consecutive offsets, symmetric about 0
IsSymmetricRange(ids) ==
    /\ \A i \in 1 .. Len(ids) : ids[i] = -ids[Len(ids) + 1 - i]
    /\ \A i \in 1 .. Len(ids) - 1 : ids[i + 1] = ids[i] + 1

\* a central call whose order and accuracy validation accepts
CentralCall ==
    /\ ScalarFdDone
    /\ op.scheme.v[1] = "central"
    /\ op.order.v[1] >= 0
    /\ op.accuracy.v[1] >= 0

(***************************************************************************)
(* C12 as stated.  For the central scheme, order n >= 0 and accuracy       *)
(* a >= 0, the support-index list is a range symmetric about 0 of exactly  *)
(* 2 * floor((n + 1) / 2) - 1 + a offsets.                                 *)
(***************************************************************************)
CentralSupportSize ==
    CentralCall =>
        /\ IsSymmetricRange(out.val.fills[1].ids)
        /\ Len(out.val.fills[1].ids) = CentralCoefs(op.order.v[1], op.accuracy.v[1])

(***************************************************************************)
(* C12 amended.  For the central scheme, order n >= 0 and accuracy a >= 0, *)
(* with N = 2 * floor((n + 1) / 2) - 1 + a, the support-index list is a    *)
(* range of consecutive offsets symmetric about 0 that holds N offsets     *)
(* when N is odd, N + 1 when N is even, and none when N = -1.              *)
(***************************************************************************)
CentralSupportRoundedUp ==
    CentralCall =>
        \A N \in {CentralCoefs(op.order.v[1], op.accuracy.v[1])} :
           /\ IsSymmetricRange(out.val.fills[1].ids)
           /\ Len(out.val.fills[1].ids) =
                 (IF N = -1 THEN 0 ELSE IF N % 2 = 1 THEN N ELSE N + 1)

\* order 1, accuracy 1, central: the call returned the three offsets -1, 0, 1
CentralSupportWitness ==
    /\ CentralCall
    /\ pc = "built"
    /\ op.order.v[1] = 1
    /\ op.accuracy.v[1] = 1
    /\ out.val.fills[1].ids = <<-1, 0, 1>>

(***************************************************************************)
(* C13.  For the central scheme, an odd accuracy a (one that a symmetric   *)
(* support cannot reach exactly) gives the support indices, coefficients   *)
(* and center of accuracy a + 1; in particular accuracy 1 gives those of   *)
(* accuracy 2.                                                             *)
(***************************************************************************)
CentralAccuracyRoundedUp ==
    (CentralCall /\ op.accuracy.v[1] % 2 = 1) =>
        \A up \in {FiniteDifference_call(op.order, op.arg_shape, op.scheme, op.axes,
                                         Scalar(op.accuracy.v[1] + 1), op.sampling)} :
           /\ out.val.err = "none"
           /\ up.err = "none"
           /\ up.fills[1].ids = out.val.fills[1].ids
           /\ up.fills[1].num = out.val.fills[1].num
           /\ up.fills[1].den = out.val.fills[1].den
           /\ up.fills[1].center = out.val.fills[1].center

\* order 1, accuracy 1, central, sampling 1: the call returned the kernel
\* [-1/2, 0, 1/2] with center 1, the kernel of accuracy 2
CentralAccuracyWitness ==
    /\ CentralCall
    /\ pc = "built"
    /\ op.order.v[1] = 1
    /\ op.accuracy.v[1] = 1
    /\ op.sampling.v[1] = 1
    /\ LowestTerms(out.val.fills[1].num, out.val.fills[1].den)
           = [num |-> <<-1, 0, 1>>, den |-> 2]
    /\ out.val.fills[1].center = 1

(***************************************************************************)
(* C14.  For every scheme in {forward, backward, central}, every order     *)
(* n >= 0 and every accuracy a >= 0, coefficient generation ends without   *)
(* error, the support list contains the offset 0, and the center is the    *)
(* index of that offset, with 0 <= center < kernel length.                 *)
(***************************************************************************)
CoefficientsAlwaysBuilt ==
    (/\ ScalarFdDone
     /\ op.scheme.v[1] \in Schemes
     /\ op.order.v[1] >= 0
     /\ op.accuracy.v[1] >= 0) =>
        /\ out.val.err = "none"
        /\ \A f \in {out.val.fills[1]} :
              /\ \E i \in 1 .. Len(f.ids) : f.ids[i] = 0
              /\ 0 <= f.center /\ f.center < Len(f.num)
              /\ f.ids[f.center + 1] = 0

\* the degree of the polynomial with coefficients cf (-1 for the zero one)
Degree(cf) ==
    IF \A p \in 1 .. Len(cf) : cf[p] = 0 THEN -1
    ELSE (CHOOSE p \in 1 .. Len(cf) : cf[p] # 0 /\ \A q \in p + 1 .. Len(cf) : cf[q] = 0) - 1

\* the n-th derivative of that polynomial at t
Derivative(cf, n, t) ==
    SeqSum([p \in 1 .. Len(cf) |->
               IF p - 1 < n THEN 0
               ELSE cf[p] * (Factorial(p - 1) \div Factorial(p - 1 - n)) * Pow(t, p - 1 - n)])

\* the positions where the kernel with support ids lies inside the array
KernelInterior(N, ids) ==
    {idx \in Indices(<<N>>) :
        \A k \in 1 .. Len(ids) : 0 <= idx[1] + ids[k] /\ idx[1] + ids[k] <= N - 1}

(***************************************************************************)
(* C15.  A finite-difference kernel of order n and accuracy a (forward,    *)
(* backward or central), applied to the samples of a polynomial of degree  *)
(* <= n + a - 1, returns the n-th derivative of the polynomial at every    *)
(* interior position; and order 1, accuracy 1, central, h = 1 on           *)
(* [0, 1, 4, 9, 16, 25] returns [2, 4, 6, 8] at the interior positions.    *)
(***************************************************************************)
ExactOnPolynomials ==
    pc = "applied" =>
        \A n \in {op.order.v[1]}, a \in {op.accuracy.v[1]}, h \in {op.sampling.v[1]},
           N \in {op.arg_shape[1]}, ids \in {out.val.fills[1].ids} :
           /\ \A cf \in KernelPolys(n, a) :
                 (Degree(cf) <= n + a - 1 /\ arr = PolySamples(cf, N, h)) =>
                     \A idx \in KernelInterior(N, ids) :
                        out.res.num[idx] = out.res.den * Derivative(cf, n, idx[1] * h)
           /\ (/\ op.scheme.v[1] = "central" /\ n = 1 /\ a = 1 /\ h = 1
               /\ arr = Array([idx \in Indices(<<6>>) |-> idx[1] * idx[1]])) =>
                  /\ KernelInterior(N, ids) = {<<1>>, <<2>>, <<3>>, <<4>>}
                  /\ \A idx \in KernelInterior(N, ids) :
                        out.res.num[idx] = out.res.den * 2 * idx[1]

\* the central kernel of order 1 and accuracy 1 ran on [0, 1, 4, 9, 16, 25]
\* and returned 2, 4, 6, 8 at the positions 1 .. 4
ExactWitness ==
    /\ pc = "applied"
    /\ op.scheme.v[1] = "central"
    /\ op.order.v[1] = 1
    /\ op.accuracy.v[1] = 1
    /\ op.sampling.v[1] = 1
    /\ arr = Array([idx \in Indices(<<6>>) |-> idx[1] * idx[1]])
    /\ out.res.den = 2
    /\ out.res.num[<<1>>] = 4
    /\ out.res.num[<<4>>] = 16

\* was the call made with an invalid scheme, a negative order, a negative
\* accuracy or a negative sigma?
InvalidArgument ==
    \/ \E i \in 1 .. Len(op.order.v) : op.order.v[i] < 0
    \/ op.method = "fd" /\ \E i \in 1 .. Len(op.scheme.v) : op.scheme.v[i] \notin Schemes
    \/ op.method = "fd" /\ \E i \in 1 .. Len(op.accuracy.v) : op.accuracy.v[i] < 0
    \/ op.method = "gd" /\ \E i \in 1 .. Len(op.sigma.v) : op.sigma.v[i] < 0

(***************************************************************************)
(* C17.  A call with an invalid scheme, a negative order, a negative       *)
(* accuracy or a negative sigma fails during construction, and the error   *)
(* raised is a ValueError.                                                 *)
(***************************************************************************)
InvalidArgumentsRaiseValueError ==
    (pc # "init" /\ InvalidArgument) =>
        /\ ~out.ok
        /\ out.val.err = "ValueError"

(***************************************************************************)
(* C18.  A Gaussian-derivative call with sigma = 0 on some axis is         *)
(* rejected by the validation of the arguments, before any kernel is       *)
(* computed.                                                               *)
(***************************************************************************)
ZeroSigmaRejected ==
    (/\ pc # "init"
     /\ op.method = "gd"
     /\ \E i \in 1 .. Len(op.sigma.v) : op.sigma.v[i] = 0) =>
        /\ ~out.ok
        /\ out.val.at = "sanitize"

(***************************************************************************)
(* C19.  With axes omitted and one order per axis of arg_shape, axes is    *)
(* (0, ..., D-1); with fewer orders than axes the call fails unless axes   *)
(* is given with exactly len(order) entries; and axes given with a number  *)
(* of entries other than len(order) always fails.                          *)
(***************************************************************************)
AxesDefaultAndLength ==
    (pc # "init" /\ op.method = "fd") =>
        \A D \in {Len(op.arg_shape)}, lo \in {Len(op.order.v)} :
           /\ (op.axes.kind = "none" /\ lo = D /\ out.val.at # "sanitize") =>
                 out.val.axes = [i \in 1 .. D |-> i - 1]
           /\ (lo < D /\ ~(op.axes.kind # "none" /\ Len(op.axes.v) = lo)) =>
                 ~out.ok /\ out.val.at = "sanitize"
           /\ (op.axes.kind # "none" /\ Len(op.axes.v) # lo) =>
                 ~out.ok /\ out.val.at = "sanitize"

\* a call with one order per axis and no axes returned, with axes (0, 1)
AxesWitness ==
    /\ pc = "built"
    /\ op.method = "fd"
    /\ op.order = Tuple(<<1, 2>>)
    /\ op.arg_shape = <<4, 4>>
    /\ op.axes = None
    /\ out.val.axes = <<0, 1>>
    /\ Len(out.val.fills) = 2

(***************************************************************************)
(* _StencilOp._get_gpu_config: the threads per block and the blocks per    *)
(* grid of a launch of the stencil on a device, for an operator            *)
(* op = [arg_shape, kshape, center, width, t_max], t_max the attribute     *)
(* MaxThreadsPerBlock of the device, and an array of shape                 *)
(* (stack, *arg_shape).                                                    *)
(***************************************************************************)
\* _next_power_of_2 = lambda x: 1 if x == 0 else 2 ** (x - 1).bit_length()
RECURSIVE bit_length(_)
bit_length(x) == IF x = 0 THEN 0 ELSE 1 + bit_length(x \div 2)

next_power_of_2(x) == IF x = 0 THEN 1 ELSE Pow(2, bit_length(x - 1))

\* s[i] for a Python index i, negative indices counted from the end
PyItem(s, i) == IF i < 0 THEN s[Len(s) + i + 1] ELSE s[i + 1]

\* faulty variant: all the threads of the device go to the last axis
max_last_threads_all(t_max, tpb) == t_max

\* int(t_max / (np.prod(tpb) / tpb[-1]))
max_last_threads(t_max, tpb) == t_max \div (Prod(tpb) \div tpb[Len(tpb)])

\* the loop over i = len(tpb) - 1, ..., 0 with its inner while, from axis i on
RECURSIVE spread_threads(_, _, _, _)
spread_threads(tpb, i, arg_shape, width) ==
    IF i < 0 THEN tpb
    ELSE IF PyItem(tpb, i) > PyItem(arg_shape, i - 1) + PyItem(width, i)[1] + PyItem(width, i)[2]
    THEN spread_threads([q \in 1 .. Len(tpb) |->
                            IF q = i + 1 THEN tpb[q] \div 2
                            ELSE IF q = i /\ i > 0 THEN tpb[q] * 2
                            ELSE tpb[q]],
                        i, arg_shape, width)
    ELSE spread_threads(tpb, i - 1, arg_shape, width)

\* math.ceil(a / b) for a >= 0, b > 0
CeilDiv(a, b) == (a + b - 1) \div b

\* _get_gpu_config(self, arr): [err, tpb, bpg]; dividing by a thread count of
\* 0 raises ZeroDivisionError
get_gpu_config(self, arr_shape) ==
    LET kernel_shape == self.kshape
        tpb0 == [d \in 1 .. Len(kernel_shape) |-> next_power_of_2(kernel_shape[d])]
        tpb1 == [tpb0 EXCEPT ![Len(tpb0)] = max_last_threads(self.t_max, tpb0)]
        tpb2 == IF Len(self.arg_shape) < 3 THEN <<1>> \o tpb1 ELSE tpb1
        aux_stacking == IF Len(self.arg_shape) < 3 THEN 0 ELSE 1
    IN CHOOSE r \in
           {IF \E i \in 1 .. Len(tpb) : tpb[i] = 0
            THEN [err |-> "ZeroDivisionError", tpb |-> tpb, bpg |-> << >>]
            ELSE [err |-> "none", tpb |-> tpb,
                  bpg |-> [i \in 1 .. Len(tpb) |->
                              CeilDiv(arr_shape[i + aux_stacking], tpb[i])]] :
               tpb \in {spread_threads(tpb2, Len(tpb2) - 1, self.arg_shape, self.width)}} : TRUE

\* the extents tried for a kernel axis and for an array axis
GpuKernelExtents == {1, 2, 3, 5}

GpuAxisExtents == {1, 3, 8}

\* the values of MaxThreadsPerBlock tried
GpuThreadLimits == {1, 6, 8, 64}

\* the centers tried for a kernel: first, middle and last element
GpuCenters(ks) ==
    {[d \in 1 .. Len(ks) |-> 0], [d \in 1 .. Len(ks) |-> ks[d] \div 2],
     [d \in 1 .. Len(ks) |-> ks[d] - 1]}

InitGpu ==
    /\ pc = "init"
    /\ \E D \in 1 .. 4 :
         \E ks \in [1 .. D -> GpuKernelExtents], sh \in [1 .. D -> GpuAxisExtents],
            t \in GpuThreadLimits :
            \E c \in GpuCenters(ks) :
               /\ D >= 4 => \A d \in 2 .. D : ks[d] = ks[1] /\ sh[d] \in {sh[1], 3}
               /\ op = [arg_shape |-> sh, kshape |-> ks, center |-> c,
                        width |-> set_width(ks, c), t_max |-> t]
    /\ arr = << >>
    /\ chunks = << >>
    /\ out = Failed

\* _apply_cupy / _adjoint_cupy up to the launch: reshape the input to
\* (stack, *arg_shape) and size the grid
GetGpuConfig ==
    /\ pc = "init"
    /\ \E stack \in 1 .. 2 :
          /\ arr' = <<stack>> \o op.arg_shape
          /\ out' = get_gpu_config(op, <<stack>> \o op.arg_shape)
    /\ pc' = "configured"
    /\ UNCHANGED <<op, chunks>>

NextGpu == GetGpuConfig

SpecGpu == InitGpu /\ [][NextGpu]_vars

(***************************************************************************)
(* C20.  For every kernel shape, every arg_shape and every device limit    *)
(* MaxThreadsPerBlock, the product of the threads per block chosen for the *)
(* axes by _get_gpu_config is at most MaxThreadsPerBlock.                  *)
(***************************************************************************)
ThreadsWithinDeviceLimit ==
    pc = "configured" => Prod(out.tpb) <= op.t_max

\* kernel of 3 elements centered on an array of 3, 8 threads at most: the 8
\* threads of the last axis exceed 3 + 2, half of them moved to the axis before
ThreadsSpreadWitness ==
    /\ pc = "configured"
    /\ op.kshape = <<3>>
    /\ op.center = <<1>>
    /\ op.arg_shape = <<3>>
    /\ op.t_max = 8
    /\ out.err = "none"
    /\ out.tpb = <<2, 4>>

\* the extent of the array axis that entry i of threadsperblock runs over:
\* arr.shape[i + aux_stacking], i counted from 1 here
GridAxisExtent(i) ==
    arr[i + (IF Len(op.arg_shape) < 3 THEN 0 ELSE 1)]

(***************************************************************************)
(* C21.  For every kernel shape, arg_shape and device limit, the grid      *)
(* sizing gives every axis at least one thread, and the block count of     *)
(* each axis is ceil(axis_extent / threads_in_axis), so that               *)
(* blocks * threads >= axis_extent.                                        *)
(***************************************************************************)
EveryAxisCovered ==
    pc = "configured" =>
        /\ out.err = "none"
        /\ \A i \in 1 .. Len(out.tpb) : out.tpb[i] >= 1
        /\ Len(out.bpg) = Len(out.tpb)
        /\ \A i \in 1 .. Len(out.tpb) :
              /\ out.bpg[i] * out.tpb[i] >= GridAxisExtent(i)
              /\ (out.bpg[i] - 1) * out.tpb[i] < GridAxisExtent(i)

(***************************************************************************)
(* C22.  For every arg_shape, those of more than 3 dimensions included,    *)
(* the threads-per-block and blocks-per-grid tuples handed to a launch     *)
(* have at most 3 entries.                                                 *)
(***************************************************************************)
GridAtMostThreeDims ==
    pc = "configured" =>
        /\ Len(out.tpb) <= 3
        /\ Len(out.bpg) <= 3

\* the entry of threadsperblock that runs over axis d (from 0) of arg_shape:
\* the grid has the stacking axis first when arg_shape has less than 3 axes
AxisThreads(d) ==
    out.tpb[IF Len(op.arg_shape) < 3 THEN d + 2 ELSE d + 1]

(***************************************************************************)
(* C28.  After grid sizing, for arg_shapes of 1, 2 and 3 dimensions, the   *)
(* thread count of each array axis d is at most arg_shape[d] plus the left *)
(* and right halo width of that axis.                                      *)
(***************************************************************************)
ThreadsWithinPaddedAxis ==
    (pc = "configured" /\ Len(op.arg_shape) <= 3) =>
        \A d \in 0 .. Len(op.arg_shape) - 1 :
            AxisThreads(d) <= op.arg_shape[d + 1] + op.width[d + 2][1] + op.width[d + 2][2]

(***************************************************************************)
(* Concurrent calls of apply / adjoint on one shared _StencilOp.  op is    *)
(* the shared instance; arr is the memory, a map from buffer ids to        *)
(* arrays, holding the callers' input arrays (buffer t for call t) and the *)
(* buffers the calls allocate; chunks[t] holds the locals of call t; pc[t] *)
(* is its position and out[t] what it returned.  A NumPy input takes       *)
(* _apply / _adjoint (the compiled stencil allocates and fills its output  *)
(* in one step here); a CuPy input takes _apply_cupy / _adjoint_cupy       *)
(* (xp.zeros_like, then the launch that fills the buffer).                 *)
(***************************************************************************)
SharedCalls == {1, 2}

SharedKernels == {<<2>>, <<3>>}

SharedArgShape == <<3>>

\* faulty variant: one output buffer, kept by the operator and used by every call
buffer_of_operator(mem, t) == 0

\* the buffer of a new array (xp.zeros_like(arr), or the output the compiled
\* stencil allocates): memory no other array uses
new_buffer(mem, t) == (CHOOSE b \in DOMAIN mem : \A c \in DOMAIN mem : c <= b) + 1

\* what the call writes into its output buffer
stencil_run(self, method, a) ==
    IF method = "apply" THEN StencilOp_apply(self, a) ELSE StencilOp_adjoint(self, a)

InitShared ==
    /\ pc = [t \in SharedCalls |-> "idle"]
    /\ \E ks \in SharedKernels :
         \E k \in [Indices(ks) -> KernelVals], c \in Indices(ks) :
            /\ StencilOp_init_ok(k, ks, c, SharedArgShape)
            /\ op = StencilOp_init(k, ks, c, SharedArgShape)
    /\ arr \in [SharedCalls -> {Unit(SharedArgShape, <<0>>), Ones(SharedArgShape)}]
    /\ chunks = [t \in SharedCalls |-> << >>]
    /\ out = [t \in SharedCalls |-> Failed]

\* apply(arr) / adjoint(arr) up to the dispatch: the dtype check reads
\* self.stencil_coefs; arr.reshape(-1, *self.arg_shape) is a view of the
\* caller's array (buffer t).  x0 records the input as the caller passed it.
SharedEnter(t) ==
    /\ pc[t] = "idle"
    /\ \E method \in {"apply", "adjoint"}, backend \in {"numpy", "cupy"} :
          chunks' = [chunks EXCEPT ![t] =
                        [method |-> method, backend |-> backend, arr |-> t, x0 |-> arr[t]]]
    /\ pc' = [pc EXCEPT ![t] = "entered"]
    /\ UNCHANGED <<op, arr, out>>

\* _apply / _adjoint: self.stencil(arr.reshape(...))
SharedStencil(t) ==
    /\ pc[t] = "entered"
    /\ chunks[t].backend = "numpy"
    /\ \E b \in {new_buffer(arr, t)} :
          /\ arr' = (b :> stencil_run(op, chunks[t].method, arr[chunks[t].arr]))
                       @@ [c \in DOMAIN arr \ {b} |-> arr[c]]
          /\ chunks' = [chunks EXCEPT ![t] = [o \in {"out"} |-> b] @@ chunks[t]]
    /\ pc' = [pc EXCEPT ![t] = "computed"]
    /\ UNCHANGED <<op, out>>

\* _apply_cupy / _adjoint_cupy: out = xp.zeros_like(arr)
SharedAlloc(t) ==
    /\ pc[t] = "entered"
    /\ chunks[t].backend = "cupy"
    /\ \E b \in {new_buffer(arr, t)} :
          /\ arr' = (b :> Zeros(op.arg_shape)) @@ [c \in DOMAIN arr \ {b} |-> arr[c]]
          /\ chunks' = [chunks EXCEPT ![t] = [o \in {"out"} |-> b] @@ chunks[t]]
    /\ pc' = [pc EXCEPT ![t] = "allocated"]
    /\ UNCHANGED <<op, out>>

\* _apply_cupy / _adjoint_cupy: self.stencil[bpg, tbp](arr, out)
SharedLaunch(t) ==
    /\ pc[t] = "allocated"
    /\ arr' = [arr EXCEPT ![chunks[t].out] =
                  stencil_run(op, chunks[t].method, arr[chunks[t].arr])]
    /\ pc' = [pc EXCEPT ![t] = "computed"]
    /\ UNCHANGED <<op, chunks, out>>

\* return out.reshape(arr_shape)
SharedReturn(t) ==
    /\ pc[t] = "computed"
    /\ out' = [out EXCEPT ![t] = OkVal(arr[chunks[t].out])]
    /\ pc' = [pc EXCEPT ![t] = "returned"]
    /\ UNCHANGED <<op, arr, chunks>>

NextShared ==
    \E t \in SharedCalls :
        \/ SharedEnter(t)
        \/ SharedStencil(t)
        \/ SharedAlloc(t)
        \/ SharedLaunch(t)
        \/ SharedReturn(t)

SpecShared == InitShared /\ [][NextShared]_vars

\* call t has returned what it returns when it runs alone, and its input
\* array is as the caller passed it
ReturnedAsAlone(t) ==
    pc[t] = "returned" =>
        /\ out[t] = OkVal(stencil_run(op, chunks[t].method, chunks[t].x0))
        /\ arr[chunks[t].arr] = chunks[t].x0

(***************************************************************************)
(* C23.  No step of apply or adjoint changes the operator (kernel, adjoint *)
(* kernel, center, width, arg_shape) or an input array of a caller, and    *)
(* under every interleaving of the calls on the shared operator each call  *)
(* returns what it returns when run alone.                                 *)
(***************************************************************************)
SharedCallsIndependent ==
    /\ [](\A t \in SharedCalls : ReturnedAsAlone(t))
    /\ [][/\ op' = op
          /\ \A t \in SharedCalls : arr'[t] = arr[t]]_vars

\* two calls on different inputs interleaved: call 2 allocated its buffer,
\* then call 1 allocated, launched and returned while call 2 had not launched
SharedWitness ==
    /\ pc[1] = "returned"
    /\ pc[2] = "allocated"
    /\ chunks[1].backend = "cupy"
    /\ chunks[2].out < chunks[1].out
    /\ chunks[1].x0 # chunks[2].x0
    /\ out[1].val # Zeros(op.arg_shape)

(***************************************************************************)
(* pycsou.opt.stop.MaxIter combined with another stopping criterion C:     *)
(* sc = MaxIter(n) & C.  op = [_n, _i] is the MaxIter object, arr the      *)
(* decision of C in the last evaluation (C is any criterion: its decision  *)
(* is an input), out = [maxiter, combined] the decisions of MaxIter and of *)
(* sc in the last evaluation.                                              *)
(***************************************************************************)
\* MaxIter.__init__(n), n a positive integer
MaxIter_init(n) == [_n |-> n, _i |-> 0]

\* MaxIter.stop(state): self._i += 1; return self._i > self._n
MaxIter_stop(self) ==
    [self |-> [self EXCEPT !._i = self._i + 1], decision |-> self._i + 1 > self._n]

\* MaxIter.info()
MaxIter_info(self) == [N_iter |-> self._i]

\* MaxIter.clear()
MaxIter_clear(self) == [self EXCEPT !._i = 0]

\* (lhs & rhs).stop(state): both criteria are evaluated, the decisions and-ed
And_stop(lhs, rhs) == lhs /\ rhs

InitMaxIter ==
    /\ pc = "init"
    /\ \E n \in 1 .. MaxN : op = MaxIter_init(n)
    /\ arr = FALSE
    /\ chunks = << >>
    /\ out = [maxiter |-> FALSE, combined |-> FALSE]

\* sc.stop(state), C deciding c
CombinedStop ==
    /\ op._i < MaxN + 2
    /\ \E c \in BOOLEAN, r \in {MaxIter_stop(op)} :
          /\ op' = r.self
          /\ arr' = c
          /\ out' = [maxiter |-> r.decision, combined |-> And_stop(r.decision, c)]
    /\ pc' = "stop"
    /\ UNCHANGED chunks

\* sc.clear()
CombinedClear ==
    /\ pc # "clear"
    /\ op' = MaxIter_clear(op)
    /\ pc' = "clear"
    /\ UNCHANGED <<arr, chunks, out>>

NextMaxIter == CombinedStop \/ CombinedClear

SpecMaxIter == InitMaxIter /\ [][NextMaxIter]_vars

(***************************************************************************)
(* C24.  For MaxIter(n) & C, with N_iter the count MaxIter reports through *)
(* info(): after an evaluation with N_iter < n the decision is "do not     *)
(* stop", and after an evaluation with N_iter >= n the decision is the     *)
(* decision of C.                                                          *)
(***************************************************************************)
GracePeriodThenC ==
    pc = "stop" =>
        /\ MaxIter_info(op).N_iter < op._n => ~out.combined
        /\ MaxIter_info(op).N_iter >= op._n => out.combined = arr

(***************************************************************************)
(* LSQR.fit with its default stopping criterion, or with a                 *)
(* StopCriterion_LSQR given by the caller.  op is the solver (its          *)
(* _iter_lim and the criterion asked for), chunks the stopping criterion   *)
(* object, arr the number of iterations (m_step calls) done, out the       *)
(* outcome of the fit.                                                     *)
(***************************************************************************)
\* the classes pycsou.opt.stop defines
StopModuleNames ==
    {"MaxIter", "ManualStop", "MaxDuration", "AbsError", "RelError",
     "StopCriterion_LSQR", "StopCriterion_LSMR"}

\* LSQR.__init__: self._iter_lim = (2 * A.shape[1]) if (iter_lim is None) else iter_lim
LSQR_iter_lim(A_shape, iter_lim) ==
    IF iter_lim = None THEN 2 * A_shape[2] ELSE iter_lim.v[1]

\* StopCriterion_LSQR.__init__(atol, ctol, itn, iter_lim)
StopCriterion_LSQR_init(itn, iter_lim) ==
    [err |-> "none", _itn |-> itn, _iter_lim |-> iter_lim, _istop |-> 0]

\* LSQR.default_stop_crit: pycos.StopCriterion_LSQMR(method="lsqr", atol=...,
\* ctol=..., itn=0, iter_lim=self._iter_lim); the attribute lookup on the
\* module fails for a name the module does not define, and
\* StopCriterion_LSQR.__init__ has no parameter `method`
LSQR_default_stop_crit(self) ==
    IF "StopCriterion_LSQMR" \notin StopModuleNames
    THEN [err |-> "AttributeError"]
    ELSE [err |-> "TypeError"]

\* the chain of ifs of StopCriterion_LSQR.stop: fired holds the codes whose
\* test on test1, test2, test3, t1 is true; the last assignment wins
LSQR_istop(self, fired) ==
    LET s7 == IF self._itn >= self._iter_lim THEN 7 ELSE self._istop
        s6 == IF 6 \in fired THEN 6 ELSE s7
        s3 == IF 3 \in fired THEN 3 ELSE s6
        s5 == IF 5 \in fired THEN 5 ELSE s3
        s2 == IF 2 \in fired THEN 2 ELSE s5
        s1 == IF 1 \in fired THEN 1 ELSE s2
    IN IF 4 \in fired THEN 4 ELSE s1

\* StopCriterion_LSQR.stop(state): [self, decision]
StopCriterion_LSQR_stop(self, fired) ==
    IF self._itn = 0
    THEN [self |-> [self EXCEPT !._itn = 1], decision |-> FALSE]
    ELSE CHOOSE r \in
           {[self |-> [self EXCEPT !._istop = s, !._itn = self._itn + 1],
             decision |-> s # 0] : s \in {LSQR_istop(self, fired)}} : TRUE

\* the outcomes of the convergence tests tried in an evaluation
LsqrFired == {{}, {1}, {2, 6}, {4}, {3, 5}}

InitLsqr ==
    /\ pc = "init"
    /\ \E cols \in 1 .. 3, lim \in {None} \cup {Scalar(l) : l \in 0 .. MaxN},
          crit \in {"default", "StopCriterion_LSQR"} :
          op = [_iter_lim |-> LSQR_iter_lim(<<cols + 1, cols>>, lim), stop_crit |-> crit,
                A_shape |-> <<cols + 1, cols>>]
    /\ arr = 0
    /\ chunks = << >>
    /\ out = [err |-> "none"]

\* fit(b=..., stop_crit=None) or fit(b=..., stop_crit=StopCriterion_LSQR(...)):
\* the criterion is made, then m_init runs
LsqrFit ==
    /\ pc = "init"
    /\ \E sc \in {IF op.stop_crit = "default" THEN LSQR_default_stop_crit(op)
                  ELSE StopCriterion_LSQR_init(0, op._iter_lim)} :
          /\ chunks' = sc
          /\ out' = [err |-> sc.err]
          /\ pc' = IF sc.err = "none" THEN "fitting" ELSE "raised"
    /\ UNCHANGED <<op, arr>>

\* one turn of the loop of fit: the criterion is evaluated on the state of
\* the solver; the fit ends if it decides to stop, else m_step runs
LsqrIterate ==
    /\ pc = "fitting"
    /\ \E fired \in LsqrFired : \E r \in {StopCriterion_LSQR_stop(chunks, fired)} :
          /\ chunks' = r.self
          /\ pc' = IF r.decision THEN "ended" ELSE "fitting"
          /\ arr' = IF r.decision THEN arr ELSE arr + 1
    /\ UNCHANGED <<op, out>>

NextLsqr == LsqrFit \/ LsqrIterate

SpecLsqr == InitLsqr /\ [][NextLsqr]_vars

(***************************************************************************)
(* C25.  A fit that uses the default stopping criterion of LSQR runs under *)
(* that criterion, never does more than iter_lim iterations (default       *)
(* 2 * A.shape[1]), and ends once that many are done.                      *)
(***************************************************************************)
DefaultFitStopsAtIterLim ==
    (op.stop_crit = "default" /\ pc # "init") =>
        /\ pc \in {"fitting", "ended"}
        /\ out.err = "none"
        /\ arr <= op._iter_lim

\* is the scheme argument a sequence with one scheme name per axis?
SchemePerAxis(kw) == "scheme" \in DOMAIN kw /\ kw["scheme"].kind = "tuple"

(***************************************************************************)
(* C26.  Divergence given a sequence parameter with one entry per axis of  *)
(* arg_shape (here: one scheme per axis) is constructed without failure,   *)
(* and its partial derivative along axis d uses the entry d of the         *)
(* sequence (the scheme the entry is changed to).                          *)
(***************************************************************************)
DivergencePerAxisSequence ==
    (pc = "divergence" /\ SchemePerAxis(op.diff_kwargs)) =>
        /\ op.divergence.ok
        /\ out.ok
        /\ \A d \in 1 .. Len(op.arg_shape) :
              op.divergence.ops[d].scheme[d] = change(op.diff_kwargs["scheme"].v[d])

(***************************************************************************)
(* Laplacian with a choice of directions.  op = [arg_shape, directions,    *)
(* laplacian]; arr is the input, out the result of apply.                  *)
(***************************************************************************)
\* pyclr.Sum(arg_shape=sum_shape, axis=0) * pds: the composition exists when
\* the stack pds returns as many values as Sum takes
Sum_compose(sum_shape, pds) ==
    IF Prod(sum_shape) = Len(pds.ops) * Prod(pds.ops[1].stencil.arg_shape)
    THEN pds ELSE NoOp

\* Laplacian(arg_shape, directions, diff_method="fd", **diff_kwargs):
\* directions = [(i, i) for i in range(ndims) if i in directions], the
\* Hessian along these, then Sum over an axis of length ndims
Laplacian_directions(arg_shape, directions, diff_kwargs) ==
    LET ndims  == Len(arg_shape)
        dirs   == IF directions.kind = "none" THEN AllDirections(arg_shape) ELSE directions.v
        chosen == SelectSeq(AllDirections(arg_shape),
                            LAMBDA i : \E j \in 1 .. Len(dirs) : dirs[j] = i)
        pairs  == [k \in 1 .. Len(chosen) |-> <<chosen[k], chosen[k]>>]
    IN IF directions.kind = "scalar" THEN NoOp   \* `i in directions`: TypeError
       ELSE CHOOSE r \in {IF ~pds.ok THEN NoOp
                           ELSE Sum_compose(<<ndims>> \o arg_shape, pds) :
                           pds \in {Hessian(arg_shape, pairs, diff_kwargs)}} : TRUE

LapShapes == {<<5>>, <<4, 4>>}

\* directions: left out, one axis index, or a non-empty sequence of axes
LapDirections(D) ==
    {None} \cup {Scalar(i) : i \in 0 .. D - 1}
           \cup {Tuple(s) : s \in {<<0>>, <<1>>, <<0, 1>>} \cap
                                  UNION {[1 .. n -> 0 .. D - 1] : n \in 1 .. D}}

InitLap ==
    /\ pc = "init"
    /\ \E sh \in LapShapes :
         \E dirs \in LapDirections(Len(sh)), acc \in {None, Scalar(2)} :
            op = [arg_shape   |-> sh,
                  directions  |-> dirs,
                  diff_kwargs |-> MakeKwargs(None, acc, None),
                  laplacian   |-> Laplacian_directions(sh, dirs, MakeKwargs(None, acc, None))]
    /\ arr = << >>
    /\ chunks = << >>
    /\ out = Failed

\* Laplacian(arg_shape, directions).apply(x)
LapApply ==
    /\ pc = "init"
    /\ \E x \in Polynomials(op.arg_shape) :
          /\ arr' = x
          /\ out' = IF op.laplacian.ok
                    THEN OkVal(SumStack_apply(op.laplacian,
                                              [i \in 1 .. Len(op.laplacian.ops) |-> x]))
                    ELSE Failed
    /\ pc' = "applied"
    /\ UNCHANGED <<op, chunks>>

NextLap == LapApply

SpecLap == InitLap /\ [][NextLap]_vars

\* the axes selected by directions
SelectedAxes(directions) == {directions.v[j] : j \in 1 .. Len(directions.v)}

\* the axis along which the i-th operator of a stack differentiates twice
SecondDerivativeAxis(st, i) ==
    CHOOSE d \in 1 .. Len(st.ops[i].stencil.arg_shape) :
        st.ops[i].stencil.kshape[d][d] = 3

(***************************************************************************)
(* C27.  Laplacian(arg_shape, directions=S), S one axis index or a         *)
(* non-empty strict subset of the axes, is constructed, has one component  *)
(* per selected direction, each the second derivative along one axis of S, *)
(* and maps an input of shape arg_shape to an output of shape arg_shape.   *)
(***************************************************************************)
LaplacianOverSelectedAxes ==
    (/\ pc = "applied"
     /\ op.directions.kind # "none"
     /\ Cardinality(SelectedAxes(op.directions)) < Len(op.arg_shape)) =>
        /\ op.laplacian.ok
        /\ Len(op.laplacian.ops) = Cardinality(SelectedAxes(op.directions))
        /\ {SecondDerivativeAxis(op.laplacian, i) - 1 : i \in 1 .. Len(op.laplacian.ops)}
               = SelectedAxes(op.directions)
        /\ out.ok
        /\ DOMAIN out.val.num = Indices(op.arg_shape)

(***************************************************************************)
(* _load_entry_points(glob, group, names).  op = [eps], the entry points   *)
(* of the group in the order entry_points() returns them; arr is glob, the *)
(* namespace of the calling module; out is names; chunks = [i, warnings,   *)
(* loaded]: the index of the next entry point, the warnings emitted so     *)
(* far and the names of the entry points whose load() was called.  A name  *)
(* is a sequence of characters; an entry point is [name, value].           *)
(***************************************************************************)
MaxEps == 3          \* largest number of entry points in the group

\* str.startswith("_")
startswith_underscore(name) == Len(name) >= 1 /\ name[1] = "_"

\* name[1:]
name_1(name) == SubSeq(name, 2, Len(name))

\* Python objects: a str, or an EntryPoint
Str(name) == [type |-> "str", name |-> name]

EntryPoint(ep) == [type |-> "EntryPoint", name |-> ep.name, value |-> ep.value]

\* x in seen, for a set: objects of different types are never equal
py_in(x, seen) == \E y \in seen : y.type = x.type /\ y = x

\* seen = set(); duplicated = [ep.name for ep in eps if ep in seen or seen.add(ep.name)]
\* (seen.add returns None): [seen, duplicated] after the first n entry points
RECURSIVE duplicated_scan(_, _)
duplicated_scan(eps, n) ==
    IF n = 0 THEN [seen |-> {}, duplicated |-> << >>]
    ELSE LET prev == duplicated_scan(eps, n - 1)
         IN IF py_in(EntryPoint(eps[n]), prev.seen)
            THEN [seen |-> prev.seen,
                  duplicated |-> Append(prev.duplicated, eps[n].name)]
            ELSE [seen |-> prev.seen \cup {Str(eps[n].name)},
                  duplicated |-> prev.duplicated]

duplicated(eps) == duplicated_scan(eps, Len(eps)).duplicated

\* faulty variant: an entry point replaces the object of its own name
load_one_overwriting(glob, names, ep) ==
    LET name == ep.name
        add(key) == [glob  |-> Update(glob, key, ep.value),
                     names |-> IF names.kind = "none" THEN names
                               ELSE Tuple(Append(names.v, key))]
    IN IF startswith_underscore(name)
       THEN IF name_1(name) \in DOMAIN glob
            THEN add(name_1(name)) @@ [warning |-> [kind |-> "overloaded", names |-> <<name>>]]
            ELSE [glob |-> glob, names |-> names,
                  warning |-> [kind |-> "non existing", names |-> <<name>>]]
       ELSE add(name) @@ [warning |-> [kind |-> "loaded", names |-> <<name>>]]

\* the body of the loop of _load_entry_points, after ep.load() returned:
\* [glob, names, warning]
load_one(glob, names, ep) ==
    LET name == ep.name
        add(key) == [glob  |-> Update(glob, key, ep.value),
                     names |-> IF names.kind = "none" THEN names
                               ELSE Tuple(Append(names.v, key))]
    IN IF startswith_underscore(name)
       THEN IF name_1(name) \in DOMAIN glob
            THEN add(name_1(name)) @@ [warning |-> [kind |-> "overloaded", names |-> <<name>>]]
            ELSE [glob |-> glob, names |-> names,
                  warning |-> [kind |-> "non existing", names |-> <<name>>]]
       ELSE IF name \in DOMAIN glob
            THEN [glob |-> glob, names |-> names,
                  warning |-> [kind |-> "defaulting", names |-> <<name>>]]
            ELSE add(name) @@ [warning |-> [kind |-> "loaded", names |-> <<name>>]]

\* the names and objects of the entry points tried
PluginNames == {<<"a">>, <<"b">>, <<"_", "a">>, <<"_", "b">>, <<"_", "_", "a">>}

PluginValues == {"plugin1", "plugin2"}

\* the namespace before loading: the base objects
BaseGlob == [n \in {<<"a">>, <<"_", "a">>} |-> "base"]

InitPlugin ==
    /\ pc = "start"
    /\ \E n \in 1 .. MaxEps :
         \E eps \in [1 .. n -> [name : PluginNames, value : PluginValues]] :
            op = [eps |-> eps]
    /\ arr = BaseGlob
    /\ chunks = [i |-> 1, warnings |-> << >>, loaded |-> << >>]
    /\ out \in {None, Tuple(<< >>)}

\* the check for duplicated entry points, before the loop
PluginCheckDuplicated ==
    /\ pc = "start"
    /\ \E dup \in {duplicated(op.eps)} :
          chunks' = [chunks EXCEPT !.warnings =
                        IF Len(dup) # 0
                        THEN Append(@, [kind |-> "duplicated", names |-> dup])
                        ELSE @]
    /\ pc' = "loading"
    /\ UNCHANGED <<op, arr, out>>

\* one turn of the loop: ep.load() returns
PluginLoadOne ==
    /\ pc = "loading"
    /\ chunks.i <= Len(op.eps)
    /\ \E r \in {load_one(arr, out, op.eps[chunks.i])} :
          /\ arr' = r.glob
          /\ out' = r.names
          /\ chunks' = [i        |-> chunks.i + 1,
                        warnings |-> Append(chunks.warnings, r.warning),
                        loaded   |-> Append(chunks.loaded, op.eps[chunks.i].name)]
    /\ UNCHANGED <<op, pc>>

\* one turn of the loop: ep.load() raises; `except: pass` ends the loop
PluginLoadRaises ==
    /\ pc = "loading"
    /\ chunks.i <= Len(op.eps)
    /\ pc' = "returned"
    /\ chunks' = [chunks EXCEPT !.loaded = Append(@, op.eps[chunks.i].name)]
    /\ UNCHANGED <<op, arr, out>>

\* return names
PluginReturn ==
    /\ pc = "loading"
    /\ chunks.i > Len(op.eps)
    /\ pc' = "returned"
    /\ UNCHANGED <<op, arr, chunks, out>>

NextPlugin == PluginCheckDuplicated \/ PluginLoadOne \/ PluginLoadRaises \/ PluginReturn

SpecPlugin == InitPlugin /\ [][NextPlugin]_vars

\* the entry point whose turn of the loop a step is
CurrentEp == op.eps[chunks.i]

(***************************************************************************)
(* C29.  In every step of loading a sequence of entry points: no object    *)
(* leaves the namespace; an object already in the namespace is replaced    *)
(* only in the turn of an entry point named "_" followed by the name of    *)
(* that object; the turn of an entry point without leading underscore      *)
(* whose name is in the namespace, and the turn of an entry point "_X"     *)
(* with X not in the namespace, leave the namespace as it is.              *)
(***************************************************************************)
OnlyUnderscoreOverloads ==
    [][/\ \A n \in DOMAIN arr :
            /\ n \in DOMAIN arr'
            /\ arr'[n] # arr[n] =>
                  /\ chunks'.i = chunks.i + 1
                  /\ CurrentEp.name = <<"_">> \o n
       /\ chunks'.i = chunks.i + 1 =>
            /\ (CurrentEp.name[1] # "_" /\ CurrentEp.name \in DOMAIN arr) => arr' = arr
            /\ (CurrentEp.name[1] = "_" /\ Tail(CurrentEp.name) \notin DOMAIN arr) =>
                  arr' = arr]_vars

\* "a" was offered without underscore and the base object kept, then "_a"
\* replaced it, and "_b" added nothing
OverloadWitness ==
    /\ pc = "returned"
    /\ op.eps = <<[name |-> <<"a">>, value |-> "plugin1"],
                  [name |-> <<"_", "a">>, value |-> "plugin2"],
                  [name |-> <<"_", "b">>, value |-> "plugin1"]>>
    /\ Len(chunks.loaded) = 3
    /\ chunks.warnings[1].kind = "defaulting"
    /\ arr[<<"a">>] = "plugin2"
    /\ <<"b">> \notin DOMAIN arr
    /\ out = Tuple(<<<<"a">>>>)

(***************************************************************************)
(* C30.  When two entry points of the group have the same name, the first  *)
(* warning _load_entry_points emits, before any entry point is loaded, is  *)
(* the "Found duplicated entry points" warning, and it lists that name.    *)
(***************************************************************************)
DuplicatedEntryPointsWarned ==
    pc # "start" =>
        \A i, j \in DOMAIN op.eps :
            (i # j /\ op.eps[i].name = op.eps[j].name) =>
                /\ Len(chunks.warnings) > 0
                /\ chunks.warnings[1].kind = "duplicated"
                /\ \E k \in DOMAIN chunks.warnings[1].names :
                      chunks.warnings[1].names[k] = op.eps[i].name

=============================================================================
